---- MODULE Spec2Model ----
(***************************************************************************)
(* KoulesII game engine (src/src/game/GameEngine.js) together with the     *)
(* keyboard sampling of src/src/input/InputManager.js.                     *)
(*                                                                         *)
(* Numbers.  The engine computes in IEEE doubles.  Every real quantity     *)
(* (position, velocity, force) is held here as an integer count of         *)
(* 1/SCALE units; a product or quotient is rounded toward zero (Div).      *)
(* The one non-finite value the engine can produce, NaN (0/0 in            *)
(* handleCollision), is kept as a flag on the object: nan = TRUE means     *)
(* x, y, vx, vy are all NaN, fnan = TRUE means fx, fy are NaN.             *)
(* A comparison with NaN is false, as in JavaScript.                       *)
(*                                                                         *)
(* Objects are shared by reference between this.objects and this.rockets:  *)
(* heap maps an object identity to its fields, objects and rockets are     *)
(* sequences of identities.  Sprites, rotation, colours and the explosion  *)
(* particles are rendering only and are left out.                          *)
(*                                                                         *)
(* disabled is InputManager.disabled; app holds the fields of KoulesGame   *)
(* (gameState, currentLevel, playerCount), whether its main menu is shown  *)
(* and its pending setTimeout callbacks in the order they were set.        *)
(***************************************************************************)
EXTENDS Integers, Sequences, FiniteSets, TLC

VARIABLES gameState, level, score, lives, nextLifeAt, playerCount,
          heap, objects, rockets,
          keys, playerControls,
          disabled, app,
          log, tr, lastOp,
          nTicks, nSpawns, nKeyEvents

vars == <<gameState, level, score, lives, nextLifeAt, playerCount,
          heap, objects, rockets, keys, playerControls, disabled, app,
          log, tr, lastOp, nTicks, nSpawns, nKeyEvents>>

----------------------------------------------------------------------------
(* Bounds of the exploration: ticks run on one level initialization, level
   initializations in one game, key events in all *)

MaxTicks == 3
MaxSpawns == 3
MaxKeyEvents == 2

(* Fixed-point resolution: one unit is 1/SCALE pixel *)
SCALE == 100

(* Frame delta handed to gameLoop by the ticker, in 60 Hz frames *)
DeltaFrames == 6

(* Screen size in pixels (app.screen.width, app.screen.height) *)
ScreenWidthPx == 400
ScreenHeightPx == 300

ScreenWidth == ScreenWidthPx * SCALE
ScreenHeight == ScreenHeightPx * SCALE

----------------------------------------------------------------------------
(* GAME_CONSTANTS *)

ROCKET == 1
BALL_SMALL == 2
BALL_LARGE == 3
HOLE == 5
BBALL == 6

BALL_SMALL_RADIUS == 8
BALL_LARGE_RADIUS == 16
BBALL_RADIUS == 16
HOLE_RADIUS == 12
ROCKET_RADIUS == 14

BALL_SMALL_MASS == 3
BALL_LARGE_MASS == 6
BBALLM == 8
ROCKETM == 4

GRAVITY_STRENGTH == 1000
MIN_GRAVITY_DISTANCE == 30
MAX_GRAVITY_DISTANCE == 150

LifeStep == 500
StartLives == 3

----------------------------------------------------------------------------
(* Arithmetic helpers *)

Abs(a) == IF a < 0 THEN -a ELSE a

(* quotient rounded toward zero, as a double quotient truncated to 1/SCALE *)
Div(a, b) == IF a >= 0 THEN a \div b ELSE -((-a) \div b)

Min(a, b) == IF a < b THEN a ELSE b
Max(a, b) == IF a > b THEN a ELSE b

RECURSIVE SqrtNewton(_, _)
SqrtNewton(n, x) ==
  LET y == (x + n \div x) \div 2
  IN IF y >= x THEN x ELSE SqrtNewton(n, y)

(* Math.sqrt on a non-negative square of units, giving units (rounded down) *)
Sqrt(n) ==
  IF n = 0 THEN 0
  ELSE SqrtNewton(n, IF n < 10000 THEN 100
                     ELSE IF n < 1000000 THEN 1000
                     ELSE IF n < 100000000 THEN 10000
                     ELSE 46341)

getRadius(type) ==
  (CASE type = ROCKET -> ROCKET_RADIUS
     [] type = BALL_SMALL -> BALL_SMALL_RADIUS
     [] type = BALL_LARGE -> BALL_LARGE_RADIUS
     [] type = BBALL -> BBALL_RADIUS
     [] type = HOLE -> HOLE_RADIUS
     [] OTHER -> 10) * SCALE

getMass(type) ==
  CASE type = ROCKET -> ROCKETM
    [] type = BALL_SMALL -> BALL_SMALL_MASS
    [] type = BALL_LARGE -> BALL_LARGE_MASS
    [] type = BBALL -> BBALLM
    [] OTHER -> 1

IsBall(type) == type = BALL_SMALL \/ type = BALL_LARGE

----------------------------------------------------------------------------
(* Event and sound log of the handler that ran last *)

Emit(name, data) == [ch |-> "emit", name |-> name, data |-> data]
Sound(name) == [ch |-> "sound", name |-> name, data |-> [volume |-> 1]]

Emitted(lg, name) == {i \in 1..Len(lg) : lg[i].ch = "emit" /\ lg[i].name = name}
Played(lg, name) == {i \in 1..Len(lg) : lg[i].ch = "sound" /\ lg[i].name = name}

ScoreData(e) == [score |-> e.score, level |-> e.level, lives |-> e.lives]

----------------------------------------------------------------------------
(* Object creation and level initialization *)

(* createGameObject: config.playerId || -1 turns player 0 into -1 *)
NewObject(cfg) ==
  [type |-> cfg.type, x |-> cfg.x, y |-> cfg.y, vx |-> cfg.vx, vy |-> cfg.vy,
   fx |-> 0, fy |-> 0,
   radius |-> getRadius(cfg.type), mass |-> getMass(cfg.type),
   live |-> TRUE,
   playerId |-> IF cfg.playerId = 0 THEN -1 ELSE cfg.playerId,
   nan |-> FALSE, fnan |-> FALSE]

createGameObject(e, cfg) ==
  [e EXCEPT !.heap = Append(@, NewObject(cfg)),
            !.objects = Append(@, Len(e.heap) + 1)]

clearGame(e) == [e EXCEPT !.heap = <<>>, !.objects = <<>>, !.rockets = <<>>]

(* cos and sin of attempt * 137.5 degrees, times 1000, attempt = 0..49 *)
GoldenCos ==
  <<
     1000, -737, 87, 609, -985, 843, -259, -462, 940, -924,
     423, 301, -866, 976, -574, -131, 766, -999, 707, -44,
     -643, 991, -819, 216, 500, -954, 906, -383, -342, 887,
     -966, 537, 174, -793, 996, -676, 0, 676, -996, 793,
     -174, -537, 966, -887, 342, 383, -906, 954, -500, -216
  >>
GoldenSin ==
  <<
     0, 676, -996, 793, -174, -537, 966, -887, 342, 383,
     -906, 954, -500, -216, 819, -991, 643, 44, -707, 999,
     -766, 131, 574, -976, 866, -301, -423, 924, -940, 462,
     259, -843, 985, -609, -87, 737, -1000, 737, -87, -609,
     985, -843, 259, 462, -940, 924, -423, -301, 866, -976
  >>

Dist2(x1, y1, x2, y2) == (x2 - x1) * (x2 - x1) + (y2 - y1) * (y2 - y1)

(* Math.sqrt(d2) < bound and Math.sqrt(d2) > bound, decided on the squares *)
Below(d2, bound) == d2 < bound * bound
Above(d2, bound) == d2 > bound * bound

isPositionSafeFromGravityInner(e, x, y) ==
  \A k \in 1..Len(e.objects) :
     LET o == e.heap[e.objects[k]]
     IN (o.type = HOLE /\ o.live /\ ~o.nan)
          => ~Below(Dist2(x, y, o.x, o.y), MIN_GRAVITY_DISTANCE * SCALE)

isPositionSafeFromGravity(e, x, y) ==
  \A k \in 1..Len(e.objects) :
     LET o == e.heap[e.objects[k]]
     IN (o.type = HOLE /\ o.live /\ ~o.nan)
          => ~Below(Dist2(x, y, o.x, o.y), MAX_GRAVITY_DISTANCE * SCALE)

getFallbackSpawnPosition == [x |-> Div(ScreenWidth, 2), y |-> Div(ScreenHeight, 2)]

maxAttempts == 50

RECURSIVE SpawnSearch(_, _, _)
SpawnSearch(e, pref, attempt) ==
  IF attempt >= maxAttempts THEN getFallbackSpawnPosition
  ELSE LET radius == (50 + attempt * 10) * SCALE
           testX == pref.x + Div(GoldenCos[attempt + 1] * radius, 1000)
           testY == pref.y + Div(GoldenSin[attempt + 1] * radius, 1000)
           clampedX == Max(50 * SCALE, Min(ScreenWidth - 50 * SCALE, testX))
           clampedY == Max(50 * SCALE, Min(ScreenHeight - 50 * SCALE, testY))
       IN IF isPositionSafeFromGravity(e, clampedX, clampedY)
          THEN [x |-> clampedX, y |-> clampedY]
          ELSE SpawnSearch(e, pref, attempt + 1)

findSafeSpawnPosition(e, pref) ==
  IF isPositionSafeFromGravity(e, pref.x, pref.y) THEN pref
  ELSE SpawnSearch(e, pref, 0)

(* rocketPositions[i], i = 0..4, proportional to the screen size *)
rocketPositions ==
  << [x |-> Div(ScreenWidth * 125, 1000), y |-> Div(ScreenHeight * 5, 10)],
     [x |-> Div(ScreenWidth * 875, 1000), y |-> Div(ScreenHeight * 5, 10)],
     [x |-> Div(ScreenWidth * 5, 10), y |-> Div(ScreenHeight * 167, 1000)],
     [x |-> Div(ScreenWidth * 5, 10), y |-> Div(ScreenHeight * 833, 1000)],
     [x |-> Div(ScreenWidth * 25, 100), y |-> Div(ScreenHeight * 333, 1000)] >>

(* an uncaught TypeError: the handler stops where it is, what it has
   assigned so far stays assigned *)
Raise(e, where) ==
  [e EXCEPT !.thrown = TRUE,
            !.log = Append(@, [ch |-> "throw", name |-> "TypeError",
                               data |-> [at |-> where]])]

Thrown(lg) == {i \in 1..Len(lg) : lg[i].ch = "throw"}

(* the config object a startGame call was given, kept at the head of its log *)
Call(name, arg) == [ch |-> "call", name |-> name, data |-> arg]
Asked(lg) == lg[1].data

(* rocketPositions[i] is undefined from i = 5 on, and findSafeSpawnPosition
   reads .x of it *)
RECURSIVE createRocketsFrom(_, _)
createRocketsFrom(e, i) ==
  IF i >= e.playerCount THEN e
  ELSE IF i >= Len(rocketPositions) THEN Raise(e, "findSafeSpawnPosition")
  ELSE LET safePosition == findSafeSpawnPosition(e, rocketPositions[i + 1])
           e1 == createGameObject(e, [type |-> ROCKET,
                                      x |-> safePosition.x, y |-> safePosition.y,
                                      vx |-> 0, vy |-> 0, playerId |-> i])
       IN createRocketsFrom([e1 EXCEPT !.rockets = Append(@, Len(e1.heap))], i + 1)

createRockets(e) == createRocketsFrom(e, 0)

ballCount(lvl) == Min(8 + lvl, 15)
holeCountFromTwo(lvl) == Min(lvl - 1, 3)
holeCount(lvl) == Min(lvl - 2, 3)
bballCount(lvl) == Min(lvl - 3, 2)

(* lay carries the Math.random() draws of one level initialization *)
RECURSIVE createBallsFrom(_, _, _)
createBallsFrom(e, lay, i) ==
  IF i >= ballCount(e.level) THEN e
  ELSE LET d == lay.balls[i + 1]
       IN createBallsFrom(
            createGameObject(e, [type |-> IF d.large THEN BALL_LARGE ELSE BALL_SMALL,
                                 x |-> d.x, y |-> d.y, vx |-> d.vx, vy |-> d.vy,
                                 playerId |-> -1]),
            lay, i + 1)

createBalls(e, lay) == createBallsFrom(e, lay, 0)

RECURSIVE createHolesFrom(_, _, _)
createHolesFrom(e, lay, i) ==
  IF i >= holeCount(e.level) THEN e
  ELSE LET d == lay.holes[i + 1]
       IN createHolesFrom(
            createGameObject(e, [type |-> HOLE, x |-> d.x, y |-> d.y,
                                 vx |-> 0, vy |-> 0, playerId |-> -1]),
            lay, i + 1)

RECURSIVE createBBallsFrom(_, _, _)
createBBallsFrom(e, lay, i) ==
  IF i >= bballCount(e.level) THEN e
  ELSE LET d == lay.bballs[i + 1]
       IN createBBallsFrom(
            createGameObject(e, [type |-> BBALL, x |-> d.x, y |-> d.y,
                                 vx |-> d.vx, vy |-> d.vy, playerId |-> -1]),
            lay, i + 1)

createSpecialObjects(e, lay) ==
  LET e1 == IF e.level > 2 THEN createHolesFrom(e, lay, 0) ELSE e
  IN IF e1.level > 3 THEN createBBallsFrom(e1, lay, 0) ELSE e1

initLevel(e, lay) ==
  LET r == createRockets(e)
      e1 == createBalls(r, lay)
  IN IF r.thrown THEN r
     ELSE IF e1.level > 1 THEN createSpecialObjects(e1, lay) ELSE e1

restartLevel(e, lay) ==
  LET e1 == initLevel(clearGame(e), lay)
  IN IF e1.thrown THEN e1 ELSE [e1 EXCEPT !.gameState = "running"]

startGame(e, cfg, lay) ==
  LET e0 == [e EXCEPT !.playerCount = IF cfg.playerCount = 0 THEN 1 ELSE cfg.playerCount,
                      !.level = IF cfg.level = 0 THEN 1 ELSE cfg.level,
                      !.score = 0, !.lives = StartLives, !.nextLifeAt = LifeStep]
      i == initLevel(clearGame(e0), lay)
      e1 == [i EXCEPT !.gameState = "running"]
  IN IF i.thrown THEN i
     ELSE [e1 EXCEPT !.log = Append(@, Emit("gameStarted",
                        [level |-> e1.level, playerCount |-> e1.playerCount,
                         gameMode |-> "cooperative"]))]

pause(e) == [e EXCEPT !.gameState = "paused"]
resume(e) == [e EXCEPT !.gameState = "running"]
stop(e) == [e EXCEPT !.gameState = "stopped"]

----------------------------------------------------------------------------
(* One frame: gameLoop and the passes it calls *)

(* v * (num / den) *)
Frac(v, num, den) == Div(v * num, den)

thrustForce == Frac(SCALE, 8, 10)

NoControls == [up |-> FALSE, down |-> FALSE, left |-> FALSE, right |-> FALSE,
               brake |-> FALSE]

(* InputManager.getPlayerControls *)
getPlayerControls(pc, playerId) ==
  IF playerId < 0 \/ playerId >= 5 THEN NoControls ELSE pc[playerId]

processInputRocketDampFirst(o, controls) ==
  LET fx1 == (IF controls.left THEN -thrustForce ELSE 0)
               + (IF controls.right THEN thrustForce ELSE 0)
      fy1 == (IF controls.up THEN -thrustForce ELSE 0)
               + (IF controls.down THEN thrustForce ELSE 0)
  IN IF ~controls.brake
     THEN [o EXCEPT !.fx = fx1, !.fy = fy1, !.fnan = FALSE]
     ELSE IF o.nan
          THEN [o EXCEPT !.fx = fx1, !.fy = fy1, !.fnan = TRUE]
          ELSE [o EXCEPT !.fx = fx1 - Frac(Frac(o.vx, 95, 100), 1, 10),
                         !.fy = fy1 - Frac(Frac(o.vy, 95, 100), 1, 10),
                         !.fnan = FALSE,
                         !.vx = Frac(o.vx, 95, 100),
                         !.vy = Frac(o.vy, 95, 100)]

processInputRocket(o, controls) ==
  LET fx1 == (IF controls.left THEN -thrustForce ELSE 0)
               + (IF controls.right THEN thrustForce ELSE 0)
      fy1 == (IF controls.up THEN -thrustForce ELSE 0)
               + (IF controls.down THEN thrustForce ELSE 0)
  IN IF ~controls.brake
     THEN [o EXCEPT !.fx = fx1, !.fy = fy1, !.fnan = FALSE]
     ELSE IF o.nan
          THEN [o EXCEPT !.fx = fx1, !.fy = fy1, !.fnan = TRUE]
          ELSE [o EXCEPT !.fx = fx1 - Frac(o.vx, 1, 10),
                         !.fy = fy1 - Frac(o.vy, 1, 10),
                         !.fnan = FALSE,
                         !.vx = Frac(o.vx, 95, 100),
                         !.vy = Frac(o.vy, 95, 100)]

RECURSIVE processInputFrom(_, _, _)
processInputFrom(e, pc, index) ==
  IF index >= Len(e.rockets) THEN e
  ELSE LET id == e.rockets[index + 1]
           o == e.heap[id]
       IN IF ~o.live THEN processInputFrom(e, pc, index + 1)
          ELSE processInputFrom(
                 [e EXCEPT !.heap[id] = processInputRocket(o, getPlayerControls(pc, index))],
                 pc, index + 1)

processInputEveryRocket(e, pc) ==
  [e EXCEPT !.heap =
     [id \in DOMAIN e.heap |->
        IF \E index \in 0..(Len(e.rockets) - 1) : e.rockets[index + 1] = id
        THEN processInputRocket(e.heap[id],
               getPlayerControls(pc, CHOOSE index \in 0..(Len(e.rockets) - 1) :
                                       e.rockets[index + 1] = id))
        ELSE e.heap[id]]]
processInput(e, pc) == processInputFrom(e, pc, 0)

(* force added to obj by one hole *)
gravityOfAnyDistance(obj, hole) ==
  LET dx == hole.x - obj.x
      dy == hole.y - obj.y
      distance == Sqrt(dx * dx + dy * dy)
  IN IF ~hole.nan /\ ~obj.nan /\ distance > 0
     THEN LET gravityForce == Div(GRAVITY_STRENGTH * SCALE * SCALE * SCALE,
                                  distance * distance)
              nx == Div(dx * SCALE, distance)
              ny == Div(dy * SCALE, distance)
          IN [fx |-> Div(nx * gravityForce, SCALE), fy |-> Div(ny * gravityForce, SCALE)]
     ELSE [fx |-> 0, fy |-> 0]

gravityOf(obj, hole) ==
  LET dx == hole.x - obj.x
      dy == hole.y - obj.y
      distance == Sqrt(dx * dx + dy * dy)
  IN IF ~hole.nan /\ ~obj.nan
        /\ Below(dx * dx + dy * dy, MAX_GRAVITY_DISTANCE * SCALE)
        /\ Above(dx * dx + dy * dy, MIN_GRAVITY_DISTANCE * SCALE)
     THEN LET gravityForce == Div(GRAVITY_STRENGTH * SCALE * SCALE * SCALE,
                                  distance * distance)
              nx == Div(dx * SCALE, distance)
              ny == Div(dy * SCALE, distance)
          IN [fx |-> Div(nx * gravityForce, SCALE), fy |-> Div(ny * gravityForce, SCALE)]
     ELSE [fx |-> 0, fy |-> 0]

RECURSIVE applyGravityFrom(_, _, _)
applyGravityFrom(e, id, k) ==
  IF k > Len(e.objects) THEN e
  ELSE LET hole == e.heap[e.objects[k]]
       IN IF ~hole.live \/ hole.type # HOLE THEN applyGravityFrom(e, id, k + 1)
          ELSE LET g == gravityOf(e.heap[id], hole)
               IN applyGravityFrom(
                    [e EXCEPT !.heap[id].fx = @ + g.fx, !.heap[id].fy = @ + g.fy],
                    id, k + 1)

applyGravity(e, id) ==
  IF e.heap[id].type = HOLE THEN e ELSE applyGravityFrom(e, id, 1)

checkExtraLifeKeepsThreshold(e) ==
  LET e1 == IF e.score >= e.nextLifeAt
            THEN LET g == [e EXCEPT !.lives = @ + 1]
                 IN [g EXCEPT !.log = @ \o
                        << Sound("levelComplete"),
                           Emit("extraLife", [score |-> g.score, level |-> g.level,
                                              lives |-> g.lives,
                                              nextLifeAt |-> g.nextLifeAt]) >>]
            ELSE e
  IN [e1 EXCEPT !.log = Append(@, Emit("scoreUpdate", ScoreData(e1)))]

(* the same with the threshold moved up by two steps at once *)
checkExtraLifeTwoSteps(e) ==
  LET e1 == IF e.score >= e.nextLifeAt
            THEN LET g == [e EXCEPT !.lives = @ + 1, !.nextLifeAt = @ + 2 * LifeStep]
                 IN [g EXCEPT !.log = @ \o
                        << Sound("levelComplete"),
                           Emit("extraLife", [score |-> g.score, level |-> g.level,
                                              lives |-> g.lives,
                                              nextLifeAt |-> g.nextLifeAt]) >>]
            ELSE e
  IN [e1 EXCEPT !.log = Append(@, Emit("scoreUpdate", ScoreData(e1)))]

checkExtraLife(e) ==
  LET e1 == IF e.score >= e.nextLifeAt
            THEN LET g == [e EXCEPT !.lives = @ + 1, !.nextLifeAt = @ + LifeStep]
                 IN [g EXCEPT !.log = @ \o
                        << Sound("levelComplete"),
                           Emit("extraLife", [score |-> g.score, level |-> g.level,
                                              lives |-> g.lives,
                                              nextLifeAt |-> g.nextLifeAt]) >>]
            ELSE e
  IN [e1 EXCEPT !.log = Append(@, Emit("scoreUpdate", ScoreData(e1)))]

keepInBoundsKillsHoles(e, id) ==
  LET obj == e.heap[id]
      margin == obj.radius
      hitLeft == ~obj.nan /\ obj.x < margin
      hitRight == ~obj.nan /\ obj.x > ScreenWidth - margin
      hitTop == ~obj.nan /\ obj.y < margin
      hitBottom == ~obj.nan /\ obj.y > ScreenHeight - margin
  IN IF ~(hitLeft \/ hitRight \/ hitTop \/ hitBottom) THEN e
     ELSE LET e1 == [e EXCEPT !.heap[id].live = FALSE]
              e2 == IF obj.type = BALL_SMALL
                    THEN checkExtraLife([e1 EXCEPT !.score = @ + 5])
                    ELSE IF obj.type = BALL_LARGE
                    THEN checkExtraLife([e1 EXCEPT !.score = @ + 10])
                    ELSE e1
          IN [e2 EXCEPT !.log = Append(@,
                 IF obj.type = ROCKET THEN Sound("rocketDeath")
                 ELSE Sound("objectDeath"))]

keepInBounds(e, id) ==
  LET obj == e.heap[id]
      margin == obj.radius
      hitLeft == ~obj.nan /\ obj.x < margin
      hitRight == ~obj.nan /\ obj.x > ScreenWidth - margin
      hitTop == ~obj.nan /\ obj.y < margin
      hitBottom == ~obj.nan /\ obj.y > ScreenHeight - margin
  IN IF ~(hitLeft \/ hitRight \/ hitTop \/ hitBottom) THEN e
     ELSE IF obj.type = HOLE THEN e
     ELSE LET e1 == [e EXCEPT !.heap[id].live = FALSE]
              e2 == IF obj.type = BALL_SMALL
                    THEN checkExtraLife([e1 EXCEPT !.score = @ + 5])
                    ELSE IF obj.type = BALL_LARGE
                    THEN checkExtraLife([e1 EXCEPT !.score = @ + 10])
                    ELSE e1
          IN [e2 EXCEPT !.log = Append(@,
                 IF obj.type = ROCKET THEN Sound("rocketDeath")
                 ELSE Sound("objectDeath"))]

(* the velocity and position update of one live object *)
integrate(obj) ==
  IF obj.nan THEN obj
  ELSE IF obj.fnan THEN [obj EXCEPT !.nan = TRUE]
  ELSE LET ax == Div(obj.fx, obj.mass)
           ay == Div(obj.fy, obj.mass)
           vx1 == obj.vx + Div(ax * DeltaFrames, 60)
           vy1 == obj.vy + Div(ay * DeltaFrames, 60)
           vx2 == IF obj.type = ROCKET THEN Frac(vx1, 98, 100) ELSE Frac(vx1, 995, 1000)
           vy2 == IF obj.type = ROCKET THEN Frac(vy1, 98, 100) ELSE Frac(vy1, 995, 1000)
           maxVel == (IF obj.type = ROCKET THEN 8 ELSE 6) * SCALE
           vel == Sqrt(vx2 * vx2 + vy2 * vy2)
           capped == Above(vx2 * vx2 + vy2 * vy2, maxVel)
           vx3 == IF capped THEN Div(Div(vx2 * SCALE, vel) * maxVel, SCALE) ELSE vx2
           vy3 == IF capped THEN Div(Div(vy2 * SCALE, vel) * maxVel, SCALE) ELSE vy2
       IN [obj EXCEPT !.vx = vx3, !.vy = vy3, !.x = @ + vx3, !.y = @ + vy3]

RECURSIVE updatePhysicsFrom(_, _)
updatePhysicsFrom(e, k) ==
  IF k > Len(e.objects) THEN e
  ELSE LET id == e.objects[k]
       IN IF ~e.heap[id].live THEN updatePhysicsFrom(e, k + 1)
          ELSE LET e1 == applyGravity(e, id)
                   e2 == [e1 EXCEPT !.heap[id] = integrate(@)]
               IN updatePhysicsFrom(keepInBounds(e2, id), k + 1)

updatePhysics(e) == updatePhysicsFrom(e, 1)

----------------------------------------------------------------------------
(* Collision pass *)

handleSpecialCollisionsRocketDamage(e, a, b) ==
  LET obj1 == e.heap[a]
      obj2 == e.heap[b]
  IN IF (IsBall(obj1.type) /\ obj2.type = HOLE) \/ (IsBall(obj2.type) /\ obj1.type = HOLE)
     THEN LET ball == IF IsBall(obj1.type) THEN a ELSE b
              pts == IF e.heap[ball].type = BALL_SMALL THEN 10
                     ELSE IF e.heap[ball].type = BALL_LARGE THEN 20 ELSE 0
              e1 == [e EXCEPT !.heap[ball].live = FALSE, !.score = @ + pts]
              e2 == checkExtraLife(e1)
          IN [e2 EXCEPT !.log = Append(@, Sound("ballInHole"))]
     ELSE IF obj1.type = ROCKET \/ obj2.type = ROCKET
     THEN LET rocket == IF obj1.type = ROCKET THEN a ELSE b
          IN [e EXCEPT !.heap[rocket].live = FALSE,
                       !.log = Append(@, Sound("rocketDeath"))]
     ELSE e

handleSpecialCollisions(e, a, b) ==
  LET obj1 == e.heap[a]
      obj2 == e.heap[b]
  IN IF (IsBall(obj1.type) /\ obj2.type = HOLE) \/ (IsBall(obj2.type) /\ obj1.type = HOLE)
     THEN LET ball == IF IsBall(obj1.type) THEN a ELSE b
              pts == IF e.heap[ball].type = BALL_SMALL THEN 10
                     ELSE IF e.heap[ball].type = BALL_LARGE THEN 20 ELSE 0
              e1 == [e EXCEPT !.heap[ball].live = FALSE, !.score = @ + pts]
              e2 == checkExtraLife(e1)
          IN [e2 EXCEPT !.log = Append(@, Sound("ballInHole"))]
     ELSE IF (obj1.type = ROCKET /\ obj2.type = HOLE) \/ (obj2.type = ROCKET /\ obj1.type = HOLE)
     THEN LET rocket == IF obj1.type = ROCKET THEN a ELSE b
          IN [e EXCEPT !.heap[rocket].live = FALSE,
                       !.log = Append(@, Sound("rocketDeath"))]
     ELSE e

(* dx, dy, distance as computed by checkCollisions *)
handleCollisionOwnMass(e, a, b, dx, dy, distance) ==
  LET obj1 == e.heap[a]
      obj2 == e.heap[b]
  IN IF distance = 0
     THEN (* nx = ny = 0/0: positions, dvn, impulse and velocities are NaN;
             NaN > 0 is false, so the special cases still run *)
          LET e1 == [e EXCEPT !.heap[a].nan = TRUE, !.heap[b].nan = TRUE,
                              !.hits = Append(@, [a |-> a, b |-> b, separating |-> FALSE])]
              e2 == handleSpecialCollisions(e1, a, b)
          IN [e2 EXCEPT !.log = Append(@, Sound("collision"))]
     ELSE LET nx == Div(dx * SCALE, distance)
              ny == Div(dy * SCALE, distance)
              overlap == Div(obj1.radius + obj2.radius - distance, 2)
              e1 == [e EXCEPT !.heap[a].x = @ - Div(nx * overlap, SCALE),
                              !.heap[a].y = @ - Div(ny * overlap, SCALE),
                              !.heap[b].x = @ + Div(nx * overlap, SCALE),
                              !.heap[b].y = @ + Div(ny * overlap, SCALE)]
              dvx == obj2.vx - obj1.vx
              dvy == obj2.vy - obj1.vy
              dvnNum == dvx * nx + dvy * ny
              dvn == Div(dvnNum, SCALE)
          IN IF dvnNum > 0
             THEN [e1 EXCEPT !.hits = Append(@, [a |-> a, b |-> b, separating |-> TRUE])]
             ELSE LET impulse == Div(2 * dvn, obj1.mass + obj2.mass)
                      e2 == [e1 EXCEPT
                               !.heap[a].vx = @ + Div(impulse * obj1.mass * nx, SCALE),
                               !.heap[a].vy = @ + Div(impulse * obj1.mass * ny, SCALE),
                               !.heap[b].vx = @ - Div(impulse * obj2.mass * nx, SCALE),
                               !.heap[b].vy = @ - Div(impulse * obj2.mass * ny, SCALE),
                               !.hits = Append(@, [a |-> a, b |-> b, separating |-> FALSE])]
                      e3 == handleSpecialCollisions(e2, a, b)
                  IN [e3 EXCEPT !.log = Append(@, Sound("collision"))]

handleCollisionMassSplit(e, a, b, dx, dy, distance) ==
  LET obj1 == e.heap[a]
      obj2 == e.heap[b]
  IN IF distance = 0
     THEN (* nx = ny = 0/0: positions, dvn, impulse and velocities are NaN;
             NaN > 0 is false, so the special cases still run *)
          LET e1 == [e EXCEPT !.heap[a].nan = TRUE, !.heap[b].nan = TRUE,
                              !.hits = Append(@, [a |-> a, b |-> b, separating |-> FALSE])]
              e2 == handleSpecialCollisions(e1, a, b)
          IN [e2 EXCEPT !.log = Append(@, Sound("collision"))]
     ELSE LET nx == Div(dx * SCALE, distance)
              ny == Div(dy * SCALE, distance)
              overlap == Div(obj1.radius + obj2.radius - distance, 2)
              share == Div(2 * overlap * obj2.mass, obj1.mass + obj2.mass)
              e1 == [e EXCEPT !.heap[a].x = @ - Div(nx * share, SCALE),
                              !.heap[a].y = @ - Div(ny * share, SCALE),
                              !.heap[b].x = @ + Div(nx * (2 * overlap - share), SCALE),
                              !.heap[b].y = @ + Div(ny * (2 * overlap - share), SCALE)]
              dvx == obj2.vx - obj1.vx
              dvy == obj2.vy - obj1.vy
              dvnNum == dvx * nx + dvy * ny
              dvn == Div(dvnNum, SCALE)
          IN IF dvnNum > 0
             THEN [e1 EXCEPT !.hits = Append(@, [a |-> a, b |-> b, separating |-> TRUE])]
             ELSE LET impulse == Div(2 * dvn, obj1.mass + obj2.mass)
                      e2 == [e1 EXCEPT
                               !.heap[a].vx = @ + Div(impulse * obj2.mass * nx, SCALE),
                               !.heap[a].vy = @ + Div(impulse * obj2.mass * ny, SCALE),
                               !.heap[b].vx = @ - Div(impulse * obj1.mass * nx, SCALE),
                               !.heap[b].vy = @ - Div(impulse * obj1.mass * ny, SCALE),
                               !.hits = Append(@, [a |-> a, b |-> b, separating |-> FALSE])]
                      e3 == handleSpecialCollisions(e2, a, b)
                  IN [e3 EXCEPT !.log = Append(@, Sound("collision"))]

handleCollision(e, a, b, dx, dy, distance) ==
  LET obj1 == e.heap[a]
      obj2 == e.heap[b]
  IN IF distance = 0
     THEN (* nx = ny = 0/0: positions, dvn, impulse and velocities are NaN;
             NaN > 0 is false, so the special cases still run *)
          LET e1 == [e EXCEPT !.heap[a].nan = TRUE, !.heap[b].nan = TRUE,
                              !.hits = Append(@, [a |-> a, b |-> b, separating |-> FALSE])]
              e2 == handleSpecialCollisions(e1, a, b)
          IN [e2 EXCEPT !.log = Append(@, Sound("collision"))]
     ELSE LET nx == Div(dx * SCALE, distance)
              ny == Div(dy * SCALE, distance)
              overlap == Div(obj1.radius + obj2.radius - distance, 2)
              e1 == [e EXCEPT !.heap[a].x = @ - Div(nx * overlap, SCALE),
                              !.heap[a].y = @ - Div(ny * overlap, SCALE),
                              !.heap[b].x = @ + Div(nx * overlap, SCALE),
                              !.heap[b].y = @ + Div(ny * overlap, SCALE)]
              dvx == obj2.vx - obj1.vx
              dvy == obj2.vy - obj1.vy
              dvnNum == dvx * nx + dvy * ny
              dvn == Div(dvnNum, SCALE)
          IN IF dvnNum > 0
             THEN [e1 EXCEPT !.hits = Append(@, [a |-> a, b |-> b, separating |-> TRUE])]
             ELSE LET impulse == Div(2 * dvn, obj1.mass + obj2.mass)
                      e2 == [e1 EXCEPT
                               !.heap[a].vx = @ + Div(impulse * obj2.mass * nx, SCALE),
                               !.heap[a].vy = @ + Div(impulse * obj2.mass * ny, SCALE),
                               !.heap[b].vx = @ - Div(impulse * obj1.mass * nx, SCALE),
                               !.heap[b].vy = @ - Div(impulse * obj1.mass * ny, SCALE),
                               !.hits = Append(@, [a |-> a, b |-> b, separating |-> FALSE])]
                      e3 == handleSpecialCollisions(e2, a, b)
                  IN [e3 EXCEPT !.log = Append(@, Sound("collision"))]

(* the same without the test of the two live flags *)
checkPairOfDead(e, i, j) ==
  LET a == e.objects[i + 1]
      b == e.objects[j + 1]
      obj1 == e.heap[a]
      obj2 == e.heap[b]
  IN IF obj1.nan \/ obj2.nan THEN e
     ELSE LET dx == obj2.x - obj1.x
              dy == obj2.y - obj1.y
              distance == Sqrt(dx * dx + dy * dy)
              minDistance == obj1.radius + obj2.radius
          IN IF Below(dx * dx + dy * dy, minDistance)
             THEN handleCollision(e, a, b, dx, dy, distance)
             ELSE e

checkPair(e, i, j) ==
  LET a == e.objects[i + 1]
      b == e.objects[j + 1]
      obj1 == e.heap[a]
      obj2 == e.heap[b]
  IN IF ~obj1.live \/ ~obj2.live THEN e
     ELSE IF obj1.nan \/ obj2.nan THEN e
     ELSE LET dx == obj2.x - obj1.x
              dy == obj2.y - obj1.y
              distance == Sqrt(dx * dx + dy * dy)
              minDistance == obj1.radius + obj2.radius
          IN IF Below(dx * dx + dy * dy, minDistance)
             THEN handleCollision(e, a, b, dx, dy, distance)
             ELSE e

(* the inner loop: object i against every later object j *)
RECURSIVE checkCollisionsInner(_, _, _)
checkCollisionsInner(e, i, j) ==
  IF j >= Len(e.objects) THEN e
  ELSE checkCollisionsInner(checkPair(e, i, j), i, j + 1)

RECURSIVE checkCollisionsFrom(_, _)
checkCollisionsFrom(e, i) ==
  IF i >= Len(e.objects) THEN e
  ELSE checkCollisionsFrom(checkCollisionsInner(e, i, i + 1), i + 1)

checkCollisionsSkipFirst(e) == checkCollisionsFrom(e, 1)
checkCollisions(e) == checkCollisionsFrom(e, 0)

----------------------------------------------------------------------------
(* Removal of dead objects and the win/lose rules *)

updateObjectsKeepsRockets(e) ==
  [e EXCEPT !.objects = SelectSeq(@, LAMBDA id : e.heap[id].live
                                                    \/ e.heap[id].type = ROCKET)]
updateObjects(e) ==
  [e EXCEPT !.objects = SelectSeq(@, LAMBDA id : e.heap[id].live)]

aliveBalls(e) ==
  {k \in 1..Len(e.objects) :
     e.heap[e.objects[k]].live /\ IsBall(e.heap[e.objects[k]].type)}

aliveRockets(e) == {k \in 1..Len(e.rockets) : e.heap[e.rockets[k]].live}

checkGameStateSilent(e, lay) ==
  IF aliveRockets(e) = {}
  THEN LET e2 == [e EXCEPT !.lives = @ - 1]
       IN IF e2.lives <= 0
          THEN [e2 EXCEPT !.log = Append(@, Emit("gameOver",
                                [score |-> e2.score, level |-> e2.level]))]
          ELSE restartLevel(e2, lay)
  ELSE e

checkGameState(e, lay) ==
  LET e1 == IF aliveBalls(e) = {}
            THEN [e EXCEPT !.log = Append(@, Emit("levelComplete",
                                   [level |-> e.level, score |-> e.score]))]
            ELSE e
  IN IF aliveRockets(e1) = {}
     THEN LET e2 == [e1 EXCEPT !.lives = @ - 1]
          IN IF e2.lives <= 0
             THEN [e2 EXCEPT !.log = Append(@, Emit("gameOver",
                                   [score |-> e2.score, level |-> e2.level]))]
             ELSE restartLevel(e2, lay)
     ELSE e1

(* the passes of gameLoop up to the removal of dead objects, in call order,
   each applied to the result of the one before *)
PassesCollideFirst(e, pc) ==
  LET e1 == processInput(e, pc)
      e2 == checkCollisions(e1)
      e3 == updatePhysics(e2)
      e4 == updateObjects(e3)
  IN [inp |-> e1, phys |-> e2, coll |-> e3, upd |-> e4]

Passes(e, pc) ==
  LET e1 == processInput(e, pc)
      e2 == updatePhysics(e1)
      e3 == checkCollisions(e2)
      e4 == updateObjects(e3)
  IN [inp |-> e1, phys |-> e2, coll |-> e3, upd |-> e4]

(* checkGameState and the closing scoreUpdate, from the result of Passes *)
Finish(e4, lay) ==
  LET e5 == checkGameState(e4, lay)
  IN IF e5.thrown THEN e5
     ELSE [e5 EXCEPT !.log = Append(@, Emit("scoreUpdate", ScoreData(e5)))]

(* the state test at the head of gameLoop: anything but "running" returns *)
gameLoopIgnoresPause(e) == e.gameState # "stopped"
gameLoopRuns(e) == e.gameState = "running"

----------------------------------------------------------------------------
(* InputManager: key state and the per-player control vectors *)

controlSchemes ==
  [i \in 0..4 |->
     CASE i = 0 -> [up |-> "ArrowUp", down |-> "ArrowDown", left |-> "ArrowLeft",
                    right |-> "ArrowRight", brake |-> " "]
       [] i = 1 -> [up |-> "w", down |-> "s", left |-> "a", right |-> "d",
                    brake |-> "Shift"]
       [] i = 2 -> [up |-> "i", down |-> "k", left |-> "j", right |-> "l",
                    brake |-> "u"]
       [] i = 3 -> [up |-> "8", down |-> "2", left |-> "4", right |-> "6",
                    brake |-> "0"]
       [] OTHER -> [up |-> "t", down |-> "g", left |-> "f", right |-> "h",
                    brake |-> "r"]]

updatePlayerControls(ks) ==
  [i \in 0..4 |->
     [up |-> controlSchemes[i].up \in ks,
      down |-> controlSchemes[i].down \in ks,
      left |-> controlSchemes[i].left \in ks,
      right |-> controlSchemes[i].right \in ks,
      brake |-> controlSchemes[i].brake \in ks]]

(* the same without the disabled test *)
updatePlayerControlsUnguarded(dis, pcs, ks) == updatePlayerControls(ks)

(* updatePlayerControls as handleKeyDown and handleKeyUp call it: nothing is
   written while the manager is disabled *)
updatePlayerControlsGuarded(dis, pcs, ks) ==
  IF dis THEN pcs ELSE updatePlayerControls(ks)

----------------------------------------------------------------------------
(* KoulesGame: the application around the engine.  timers holds the
   setTimeout callbacks not yet run, oldest first. *)

(* after init(): showMainMenu has run; mainMenu is the visibility of the
   main menu with its start buttons *)
MainMenu ==
  [gameState |-> "menu", currentLevel |-> 1, playerCount |-> 1,
   mainMenu |-> TRUE, timers |-> << >>]

----------------------------------------------------------------------------
(* Inputs of the exploration *)

KeySet == {"ArrowRight", " "}
StartConfigs ==
  { [playerCount |-> 1, level |-> 1], [playerCount |-> 1, level |-> 3],
    [playerCount |-> 2, level |-> 3], [playerCount |-> 2, level |-> 4],
    [playerCount |-> 1, level |-> 5],
    [playerCount |-> 0, level |-> 1], [playerCount |-> -1, level |-> 1],
    [playerCount |-> 6, level |-> 1] }

Ball(large, x, y, vx, vy) == [large |-> large, x |-> x, y |-> y, vx |-> vx, vy |-> vy]
At(x, y) == [x |-> x, y |-> y]
Moving(x, y, vx, vy) == [x |-> x, y |-> y, vx |-> vx, vy |-> vy]

(* level 1: nine resting balls away from the rockets *)
LayoutParked ==
  [balls |-> << Ball(FALSE, 12000, 6000, 0, 0), Ball(FALSE, 17000, 6000, 0, 0),
                Ball(TRUE, 22000, 6000, 0, 0), Ball(FALSE, 27000, 6000, 0, 0),
                Ball(FALSE, 12000, 24000, 0, 0), Ball(TRUE, 17000, 24000, 0, 0),
                Ball(FALSE, 22000, 24000, 0, 0), Ball(FALSE, 27000, 24000, 0, 0),
                Ball(FALSE, 20000, 15000, 0, 0) >>,
   holes |-> << >>,
   bballs |-> << >>]

(* level 3: the hole spawns 20 px left of rocket 0; one ball drifts; two
   resting balls are drawn at the same point *)
LayoutRocketHole ==
  [balls |-> << Ball(FALSE, 12000, 6000, 0, 0), Ball(FALSE, 17000, 6000, 0, 0),
                Ball(TRUE, 22000, 6000, 0, 0), Ball(FALSE, 27000, 6000, 0, 0),
                Ball(FALSE, 12000, 24000, 0, 0), Ball(TRUE, 17000, 24000, 0, 0),
                Ball(FALSE, 22000, 24000, 0, 0), Ball(FALSE, 22000, 24000, 0, 0),
                Ball(FALSE, 20000, 15000, 0, 0), Ball(FALSE, 9000, 11000, 0, 0),
                Ball(TRUE, 25000, 15000, 50, -30) >>,
   holes |-> << At(3000, 15000) >>,
   bballs |-> << >>]

(* level 4: six balls around each hole, the big ball in the top-left corner *)
LayoutRings ==
  [balls |-> << Ball(TRUE, 14400, 15000, 0, 0), Ball(TRUE, 12000, 17400, 0, 0),
                Ball(TRUE, 9600, 15000, 0, 0), Ball(TRUE, 12000, 12600, 0, 0),
                Ball(FALSE, 12600, 15000, 0, 0), Ball(FALSE, 12520, 15300, 0, 0),
                Ball(TRUE, 32400, 15000, 0, 0), Ball(TRUE, 30000, 17400, 0, 0),
                Ball(TRUE, 27600, 15000, 0, 0), Ball(TRUE, 30000, 12600, 0, 0),
                Ball(FALSE, 30600, 15000, 0, 0), Ball(FALSE, 30520, 15300, 0, 0) >>,
   holes |-> << At(12000, 15000), At(30000, 15000) >>,
   bballs |-> << Moving(1000, 1000, 0, 0) >>]

(* level 5: three rows of overlapping spawns near the left wall (y = 80, 220, 150) *)
LayoutWall ==
  [balls |-> << Ball(FALSE, 5000, 8000, -99, 0), Ball(TRUE, 5050, 8000, 0, 0),
                Ball(TRUE, 5100, 8000, 0, 0), Ball(TRUE, 5150, 8000, 0, 0),
                Ball(TRUE, 5000, 22000, -99, 0), Ball(TRUE, 5050, 22000, 0, 0),
                Ball(TRUE, 5100, 22000, 0, 0), Ball(TRUE, 5150, 22000, 0, 0),
                Ball(TRUE, 5050, 15000, 0, 0), Ball(TRUE, 5100, 15000, 0, 0),
                Ball(TRUE, 5150, 15000, 0, 0), Ball(FALSE, 20000, 6000, 0, 0),
                Ball(FALSE, 20000, 24000, 0, 0) >>,
   holes |-> << At(3000, 8000), At(2300, 22000), At(500, 29500) >>,
   bballs |-> << Moving(2000, 8000, 0, 0), Moving(2500, 15000, 0, 0) >>]

(* the spawn draws explored for a level *)
Layouts(lvl) ==
  CASE lvl = 1 -> {LayoutParked}
    [] lvl = 3 -> {LayoutRocketHole}
    [] lvl = 4 -> {LayoutRings}
    [] lvl = 5 -> {LayoutWall}
    [] OTHER -> {}

----------------------------------------------------------------------------
(* State machine *)

Eng ==
  [gameState |-> gameState, level |-> level, score |-> score, lives |-> lives,
   nextLifeAt |-> nextLifeAt, playerCount |-> playerCount,
   heap |-> heap, objects |-> objects, rockets |-> rockets,
   log |-> << >>, hits |-> << >>, thrown |-> FALSE]

View(e) ==
  [gameState |-> e.gameState, level |-> e.level, score |-> e.score,
   lives |-> e.lives, nextLifeAt |-> e.nextLifeAt,
   heap |-> e.heap, objects |-> e.objects, rockets |-> e.rockets]

(* snapshots of the last gameLoop call that ran its passes, with the
   control vectors it read *)
NoTrace(e) ==
  [ran |-> FALSE, pc |-> updatePlayerControls({}), pre |-> View(e), inp |-> View(e), phys |-> View(e),
   coll |-> View(e), upd |-> View(e), post |-> View(e), hits |-> << >>]

Install(e, op) ==
  /\ gameState' = e.gameState
  /\ level' = e.level
  /\ score' = e.score
  /\ lives' = e.lives
  /\ nextLifeAt' = e.nextLifeAt
  /\ playerCount' = e.playerCount
  /\ heap' = e.heap
  /\ objects' = e.objects
  /\ rockets' = e.rockets
  /\ log' = e.log
  /\ lastOp' = op

Init ==
  /\ gameState = "stopped"
  /\ level = 1
  /\ score = 0
  /\ lives = StartLives
  /\ nextLifeAt = LifeStep
  /\ playerCount = 1
  /\ heap = << >>
  /\ objects = << >>
  /\ rockets = << >>
  /\ keys = {}
  /\ playerControls = updatePlayerControls({})
  /\ log = << >>
  /\ tr = NoTrace(Eng)
  /\ lastOp = "constructor"
  /\ nTicks = 0
  /\ nSpawns = 0
  /\ nKeyEvents = 0
  /\ disabled = FALSE
  /\ app = MainMenu

(* Each handler's result is bound once (a one-element set) and then
   installed as the next state. *)
StartGame ==
  /\ \E cfg \in StartConfigs :
       \E lay \in Layouts(cfg.level) :
          \E e \in {startGame([Eng EXCEPT !.log = << Call("startGame", cfg) >>],
                               cfg, lay)} :
             Install(e, "startGame") /\ tr' = NoTrace(e)
  /\ nSpawns' = 1
  /\ nTicks' = 0
  /\ UNCHANGED <<disabled, app, keys, playerControls, nKeyEvents>>

(* one ticker callback; a call that returns at the state test is not counted *)
GameLoop ==
  IF ~gameLoopRuns(Eng)
  THEN /\ Install(Eng, "gameLoop")
       /\ tr' = NoTrace(Eng)
       /\ UNCHANGED <<disabled, app, keys, playerControls, nTicks, nSpawns, nKeyEvents>>
  ELSE /\ nTicks < MaxTicks
       /\ \E p \in {Passes(Eng, playerControls)} :
            \E respawns \in {aliveRockets(p.upd) = {} /\ lives > 1} :
               /\ respawns => nSpawns < MaxSpawns
               /\ nSpawns' = IF respawns THEN nSpawns + 1 ELSE nSpawns
               /\ nTicks' = IF respawns THEN 0 ELSE nTicks + 1
               /\ \E lay \in Layouts(level) :
                    \E e \in {Finish(p.upd, lay)} :
                       /\ Install(e, "gameLoop")
                       /\ tr' = [ran |-> TRUE, pc |-> playerControls,
                                 pre |-> View(Eng), inp |-> View(p.inp),
                                 phys |-> View(p.phys), coll |-> View(p.coll),
                                 upd |-> View(p.upd), post |-> View(e),
                                 hits |-> p.coll.hits]
       /\ UNCHANGED <<disabled, app, keys, playerControls, nKeyEvents>>

Pause ==
  /\ \E e \in {pause(Eng)} : Install(e, "pause") /\ tr' = NoTrace(e)
  /\ UNCHANGED <<disabled, app, keys, playerControls, nTicks, nSpawns, nKeyEvents>>

Resume ==
  /\ \E e \in {resume(Eng)} : Install(e, "resume") /\ tr' = NoTrace(e)
  /\ UNCHANGED <<disabled, app, keys, playerControls, nTicks, nSpawns, nKeyEvents>>

Stop ==
  /\ \E e \in {stop(Eng)} : Install(e, "stop") /\ tr' = NoTrace(e)
  /\ UNCHANGED <<disabled, app, keys, playerControls, nTicks, nSpawns, nKeyEvents>>

RestartLevel ==
  /\ nSpawns < MaxSpawns
  /\ \E lay \in Layouts(level) :
       \E e \in {restartLevel(Eng, lay)} :
          Install(e, "restartLevel") /\ tr' = NoTrace(e)
  /\ nSpawns' = nSpawns + 1
  /\ nTicks' = 0
  /\ UNCHANGED <<disabled, app, keys, playerControls, nKeyEvents>>

KeyDown ==
  /\ nKeyEvents < MaxKeyEvents
  /\ \E k \in KeySet \ keys :
       /\ keys' = keys \cup {k}
       /\ playerControls' = updatePlayerControlsGuarded(disabled, playerControls,
                                                        keys \cup {k})
  /\ nKeyEvents' = nKeyEvents + 1
  /\ UNCHANGED <<disabled, app, gameState, level, score, lives, nextLifeAt, playerCount,
                 heap, objects, rockets, log, tr, lastOp, nTicks, nSpawns>>

KeyUp ==
  /\ nKeyEvents < MaxKeyEvents
  /\ \E k \in keys :
       /\ keys' = keys \ {k}
       /\ playerControls' = updatePlayerControlsGuarded(disabled, playerControls,
                                                        keys \ {k})
  /\ nKeyEvents' = nKeyEvents + 1
  /\ UNCHANGED <<disabled, app, gameState, level, score, lives, nextLifeAt, playerCount,
                 heap, objects, rockets, log, tr, lastOp, nTicks, nSpawns>>

Next ==
  \/ StartGame
  \/ GameLoop
  \/ Pause
  \/ Resume
  \/ Stop
  \/ RestartLevel
  \/ KeyDown
  \/ KeyUp

Spec == Init /\ [][Next]_vars

----------------------------------------------------------------------------
(* Reading the snapshots of the last tick *)

(* identities held by the object collection of a snapshot *)
Ids(v) == {v.objects[k] : k \in 1..Len(v.objects)}

(* the bounds test of keepInBounds on one object *)
OutOfBounds(o) ==
  /\ ~o.nan
  /\ \/ o.x < o.radius
     \/ o.x > ScreenWidth - o.radius
     \/ o.y < o.radius
     \/ o.y > ScreenHeight - o.radius

(* objects of a kind that stood in the wall margin after their integration *)
WallHit(kind) ==
  {id \in Ids(tr.pre) : tr.phys.heap[id].type = kind /\ OutOfBounds(tr.phys.heap[id])}

(* the handleCollision calls of the tick between a kind and a Hole *)
HoleHits(kind) ==
  {i \in 1..Len(tr.hits) :
     \/ tr.coll.heap[tr.hits[i].a].type = kind /\ tr.coll.heap[tr.hits[i].b].type = HOLE
     \/ tr.coll.heap[tr.hits[i].b].type = kind /\ tr.coll.heap[tr.hits[i].a].type = HOLE}

(* the non-Hole and the Hole of such a call *)
Visitor(i) ==
  IF tr.coll.heap[tr.hits[i].a].type = HOLE THEN tr.hits[i].b ELSE tr.hits[i].a
HoleOf(i) ==
  IF tr.coll.heap[tr.hits[i].a].type = HOLE THEN tr.hits[i].a ELSE tr.hits[i].b

(* the simulation state named by the pause contract *)
World == <<heap, objects, rockets, score, lives, level, nextLifeAt>>

----------------------------------------------------------------------------
(* Claims *)

(* C1: a tick that emits gameOver leaves the engine Stopped, so no later
   tick executes until startGame is called again. *)
C1_GameOverStops ==
  (lastOp = "gameLoop" /\ tr.ran /\ Emitted(log, "gameOver") # {})
    => gameState = "stopped"

(* C2: every collision resolution between an alive Rocket and an alive Hole
   leaves the rocket not-alive and plays rocketDeath, for every relative
   velocity of the pair. *)
C2_RocketHoleLethal ==
  tr.ran =>
    \A i \in HoleHits(ROCKET) :
       /\ ~tr.coll.heap[Visitor(i)].live
       /\ Played(log, "rocketDeath") # {}

(* C3: every collision resolution between an alive ball and an alive Hole
   leaves the ball not-alive and the hole alive, and the collision pass
   adds exactly 10 per BallSmall and 20 per BallLarge to score. *)
C3_BallHoleScores ==
  tr.ran =>
    /\ \A i \in HoleHits(BALL_SMALL) \cup HoleHits(BALL_LARGE) :
          ~tr.coll.heap[Visitor(i)].live /\ tr.coll.heap[HoleOf(i)].live
    /\ tr.coll.score - tr.phys.score
         = 10 * Cardinality(HoleHits(BALL_SMALL))
             + 20 * Cardinality(HoleHits(BALL_LARGE))

(* C4: in every tick each alive non-Hole object standing within one radius
   of a screen edge after its integration is not-alive after the physics
   pass, no Hole is killed there, and the pass adds exactly 5 per BallSmall
   and 10 per BallLarge so killed, nothing for any other kind. *)
C4_DeadlyWalls ==
  tr.ran =>
    /\ \A id \in Ids(tr.pre) :
          LET o == tr.phys.heap[id]
          IN /\ (o.type # HOLE /\ OutOfBounds(o)) => ~o.live
             /\ o.type = HOLE => o.live
    /\ tr.phys.score - tr.pre.score
         = 5 * Cardinality(WallHit(BALL_SMALL))
             + 10 * Cardinality(WallHit(BALL_LARGE))

C4_Witness ==
  /\ tr.ran
  /\ WallHit(BALL_SMALL) # {}
  /\ WallHit(BALL_LARGE) # {}
  /\ WallHit(ROCKET) # {}
  /\ WallHit(HOLE) # {}

(* C5: a tick in which score crosses nextLifeAt grants exactly one life and
   moves nextLifeAt up by exactly 500, however many objects scored in it;
   a tick without a crossing grants none and leaves nextLifeAt alone. *)
C5_OneLifePerCrossing ==
  tr.ran =>
    LET crossing == tr.pre.score < tr.pre.nextLifeAt
                      /\ tr.upd.score >= tr.pre.nextLifeAt
        grants == Cardinality(Emitted(log, "extraLife"))
    IN IF crossing
       THEN /\ grants = 1
            /\ tr.upd.lives = tr.pre.lives + 1
            /\ tr.upd.nextLifeAt = tr.pre.nextLifeAt + 500
       ELSE /\ grants = 0
            /\ tr.upd.lives = tr.pre.lives
            /\ tr.upd.nextLifeAt = tr.pre.nextLifeAt

C5_Witness ==
  /\ tr.ran
  /\ tr.pre.score < tr.pre.nextLifeAt
  /\ tr.upd.score >= tr.pre.nextLifeAt
  /\ tr.upd.score - tr.pre.score > 20
  /\ Cardinality(Played(log, "ballInHole")) > 1
  /\ tr.upd.lives = tr.pre.lives + 1

(* C6: a running tick that reaches its rules phase with no alive BallSmall
   or BallLarge in the object collection emits levelComplete carrying the
   current level and the current score. *)
C6_LevelCompleteEmitted ==
  (tr.ran /\ aliveBalls(tr.upd) = {})
    => \E i \in Emitted(log, "levelComplete") :
          log[i].data = [level |-> tr.upd.level, score |-> tr.upd.score]

C6_Witness ==
  /\ tr.ran
  /\ aliveBalls(tr.pre) # {}
  /\ aliveBalls(tr.upd) = {}
  /\ Emitted(log, "levelComplete") # {}

(* C7: the tick that completes a level (its last alive ball goes) raises
   score by a completion bonus of at least 100 points on top of the points
   of the collision pass. *)
C7_LevelBonus ==
  (tr.ran /\ aliveBalls(tr.pre) # {} /\ aliveBalls(tr.upd) = {})
    => tr.post.score >= tr.upd.score + 100

(* C8: the phase changes only Stopped to Running, Running to Paused, Paused
   to Running and Running to Stopped, under every call sequence. *)
C8_PhaseMachine ==
  [][ \/ gameState' = gameState
      \/ gameState = "stopped" /\ gameState' = "running"
      \/ gameState = "running" /\ gameState' = "paused"
      \/ gameState = "paused" /\ gameState' = "running"
      \/ gameState = "running" /\ gameState' = "stopped" ]_vars

(* C9: a gameLoop call on a Paused or Stopped engine changes nothing in the
   simulation state and emits nothing; pause() and resume() change nothing
   in it either, so the tick after a resume starts from the state held at
   the pause. *)
C9_PauseFreezes ==
  [][ /\ (gameState # "running" /\ lastOp' = "gameLoop")
          => (World' = World /\ gameState' = gameState /\ log' = << >>)
      /\ lastOp' \in {"pause", "resume"}
          => (World' = World /\ log' = << >>) ]_vars

C9_Witness ==
  /\ lastOp = "gameLoop"
  /\ gameState = "paused"
  /\ ~tr.ran
  /\ \E id \in Ids(tr.pre) : tr.pre.heap[id].vx # 0

(* C10: at the start of every tick the accumulated force of every alive
   object, Rocket or not, has been cleared to (0,0) before that tick's
   gravity is added. *)
C10_ForceReset ==
  tr.ran =>
    \A id \in Ids(tr.pre) :
       tr.pre.heap[id].type # ROCKET
         => /\ tr.inp.heap[id].fx = 0
            /\ tr.inp.heap[id].fy = 0
            /\ ~tr.inp.heap[id].fnan

(* C11: a startGame call whose playerCount is outside 1..5 is rejected with
   an error: it leaves no object spawned and does not make the phase
   Running. *)
C11_InvalidConfigRejected ==
  [][ (lastOp' = "startGame" /\ keys' = keys
         /\ Asked(log').playerCount \notin 1..5)
        => /\ Thrown(log') # {}
           /\ objects' = << >>
           /\ gameState' = "running" => gameState = "running" ]_vars

(* position and velocity of an object, with their NaN flag *)
Kinematics(o) == <<o.x, o.y, o.vx, o.vy, o.nan>>

(* pairs of alive objects that enter the collision pass with identical
   centres and meet no third object in it *)
Coincident ==
  {pr \in Ids(tr.phys) \X Ids(tr.phys) :
     /\ pr[1] < pr[2]
     /\ tr.phys.heap[pr[1]].live /\ tr.phys.heap[pr[2]].live
     /\ ~tr.phys.heap[pr[1]].nan /\ ~tr.phys.heap[pr[2]].nan
     /\ tr.phys.heap[pr[1]].x = tr.phys.heap[pr[2]].x
     /\ tr.phys.heap[pr[1]].y = tr.phys.heap[pr[2]].y
     /\ \A i \in 1..Len(tr.hits) :
           {tr.hits[i].a, tr.hits[i].b} = {pr[1], pr[2]}
             \/ {tr.hits[i].a, tr.hits[i].b} \cap {pr[1], pr[2]} = {}}

(* C12: two alive objects with identical centres at the collision pass are
   skipped by it: their positions and velocities leave the pass unchanged
   and are never NaN. *)
C12_ZeroDistanceSkipped ==
  tr.ran =>
    \A pr \in Coincident :
       /\ Kinematics(tr.coll.heap[pr[1]]) = Kinematics(tr.phys.heap[pr[1]])
       /\ Kinematics(tr.coll.heap[pr[2]]) = Kinematics(tr.phys.heap[pr[2]])

(* the live objects of a kind in the current collection *)
Live(kind) ==
  {id \in Ids(Eng) : heap[id].type = kind /\ heap[id].live /\ ~heap[id].nan}

AtCentre(o) ==
  o.x = getFallbackSpawnPosition.x /\ o.y = getFallbackSpawnPosition.y

(* C13: right after a level initialization by startGame or restartLevel,
   every rocket is at distance at least MAX_GRAVITY_DISTANCE from every
   alive Hole of the level, unless it sits at the centre-of-screen
   fallback position. *)
C13_SpawnOutsideGravity ==
  (lastOp \in {"startGame", "restartLevel"} /\ Thrown(log) = {})
    => \A r \in Live(ROCKET) : \A h \in Live(HOLE) :
          \/ AtCentre(heap[r])
          \/ ~Below(Dist2(heap[r].x, heap[r].y, heap[h].x, heap[h].y),
                    MAX_GRAVITY_DISTANCE * SCALE)

(* ---- findSafeSpawnPosition on its own ---- *)

MaxHoles == 2

(* where a level's Holes may have been drawn, and whether each is alive *)
HoleSpots ==
  { [x |-> 125 * SCALE, y |-> 150 * SCALE], [x |-> 275 * SCALE, y |-> 150 * SCALE],
    [x |-> 200 * SCALE, y |-> 150 * SCALE], [x |-> 30 * SCALE, y |-> 150 * SCALE],
    [x |-> 350 * SCALE, y |-> 60 * SCALE] }

HoleDraws == [at : HoleSpots, live : BOOLEAN]

(* the preferred positions asked for: the five rocket positions and the
   centre of the screen *)
SpawnPrefs ==
  {rocketPositions[i] : i \in 1..Len(rocketPositions)} \cup {getFallbackSpawnPosition}

RECURSIVE WithHoles(_, _, _)
WithHoles(e, hs, k) ==
  IF k > Len(hs) THEN e
  ELSE LET e1 == createGameObject(e, [type |-> HOLE, x |-> hs[k].at.x, y |-> hs[k].at.y,
                                      vx |-> 0, vy |-> 0, playerId |-> 0])
       IN WithHoles([e1 EXCEPT !.heap[Len(e1.heap)].live = hs[k].live], hs, k + 1)

(* the clamped position the search probes at an attempt *)
Candidate(pref, attempt) ==
  LET radius == (50 + attempt * 10) * SCALE
      testX == pref.x + Div(GoldenCos[attempt + 1] * radius, 1000)
      testY == pref.y + Div(GoldenSin[attempt + 1] * radius, 1000)
  IN [x |-> Max(50 * SCALE, Min(ScreenWidth - 50 * SCALE, testX)),
      y |-> Max(50 * SCALE, Min(ScreenHeight - 50 * SCALE, testY))]

Returned(name, val) == [ch |-> "return", name |-> name, data |-> val]

(* a level in play whose objects are the Holes drawn *)
InitSpawn ==
  \E n \in 0..MaxHoles : \E hs \in [1..n -> HoleDraws] :
     \E e \in {WithHoles([gameState |-> "running", level |-> 3, score |-> 0,
                          lives |-> StartLives, nextLifeAt |-> LifeStep,
                          playerCount |-> 1, heap |-> << >>, objects |-> << >>,
                          rockets |-> << >>, log |-> << >>, hits |-> << >>,
                          thrown |-> FALSE], hs, 1)} :
        /\ gameState = e.gameState
        /\ level = e.level
        /\ score = e.score
        /\ lives = e.lives
        /\ nextLifeAt = e.nextLifeAt
        /\ playerCount = e.playerCount
        /\ heap = e.heap
        /\ objects = e.objects
        /\ rockets = e.rockets
        /\ keys = {}
        /\ playerControls = updatePlayerControls({})
        /\ log = << >>
        /\ tr = NoTrace(e)
        /\ lastOp = "constructor"
        /\ nTicks = 0
        /\ nSpawns = 0
        /\ nKeyEvents = 0
        /\ disabled = FALSE
        /\ app = MainMenu

(* the function leaves the engine as it is: one call per level drawn shows
   all it can return *)
FindSafeSpawnPosition ==
  /\ lastOp = "constructor"
  /\ \E pref \in SpawnPrefs :
       log' = << Call("findSafeSpawnPosition", pref),
                 Returned("findSafeSpawnPosition", findSafeSpawnPosition(Eng, pref)) >>
  /\ lastOp' = "findSafeSpawnPosition"
  /\ UNCHANGED <<disabled, app, gameState, level, score, lives, nextLifeAt, playerCount, heap,
                 objects, rockets, keys, playerControls, tr, nTicks, nSpawns,
                 nKeyEvents>>

NextSpawn == FindSafeSpawnPosition

SpecSpawn == InitSpawn /\ [][NextSpawn]_vars

(* a position no alive Hole pulls at: none is nearer than MAX_GRAVITY_DISTANCE *)
OutOfReach(pos) ==
  \A h \in Live(HOLE) :
     ~Below(Dist2(pos.x, pos.y, heap[h].x, heap[h].y), MAX_GRAVITY_DISTANCE * SCALE)

(* a position farther than MAX_GRAVITY_DISTANCE from every alive Hole *)
StrictlyOutside(pos) ==
  \A h \in Live(HOLE) :
     Above(Dist2(pos.x, pos.y, heap[h].x, heap[h].y), MAX_GRAVITY_DISTANCE * SCALE)

Probed(pref) == {Candidate(pref, a) : a \in 0..(maxAttempts - 1)}

(* C14 as stated: findSafeSpawnPosition returns, after the preferred
   position and at most 50 probes, a position strictly outside
   MAX_GRAVITY_DISTANCE from every alive Hole, or exactly the centre of
   the screen when no probed position is safe. *)
C14_StrictlyOutsideOrCentre ==
  lastOp = "findSafeSpawnPosition"
    => LET pref == log[1].data
           pos == log[2].data
       IN \/ pos \in {pref} \cup Probed(pref) /\ StrictlyOutside(pos)
          \/ /\ pos = getFallbackSpawnPosition
             /\ \A c \in {pref} \cup Probed(pref) : ~StrictlyOutside(c)

(* C14 amended: the position returned is the preferred one or one of the
   50 probes and is at distance at least MAX_GRAVITY_DISTANCE from every
   alive Hole, or it is exactly the centre of the screen when neither the
   preferred position nor any probe is that far from every alive Hole. *)
C14_SafeOrCentre ==
  lastOp = "findSafeSpawnPosition"
    => LET pref == log[1].data
           pos == log[2].data
       IN \/ pos \in {pref} \cup Probed(pref) /\ OutOfReach(pos)
          \/ /\ pos = getFallbackSpawnPosition
             /\ \A c \in {pref} \cup Probed(pref) : ~OutOfReach(c)

(* the search left an unsafe preferred position and found a safe probe *)
C14_Witness ==
  /\ lastOp = "findSafeSpawnPosition"
  /\ Live(HOLE) # {}
  /\ ~OutOfReach(log[1].data)
  /\ log[2].data # getFallbackSpawnPosition
  /\ log[2].data \in Probed(log[1].data)

(* the tick's game-rules phase found no alive rocket with lives to spare *)
Respawning == tr.ran /\ aliveRockets(tr.upd) = {} /\ tr.upd.lives > 1

(* a view holds a fresh spawn: n alive rockets at rest and the level's
   alive balls, nothing dead *)
FreshSpawn(v, n) ==
  /\ Len(v.rockets) = n
  /\ \A k \in 1..Len(v.rockets) :
        /\ v.rockets[k] \in Ids(v)
        /\ v.heap[v.rockets[k]].type = ROCKET
        /\ v.heap[v.rockets[k]].vx = 0 /\ v.heap[v.rockets[k]].vy = 0
  /\ \A id \in Ids(v) : v.heap[id].live /\ ~v.heap[id].nan
  /\ Cardinality({id \in Ids(v) : IsBall(v.heap[id].type)}) = ballCount(v.level)
  /\ Cardinality({id \in Ids(v) : v.heap[id].type = ROCKET}) = n

(* C15: in a running tick whose game-rules phase finds no alive rocket
   while lives > 1, lives drops by exactly 1, the collection is replaced by
   a fresh spawn of the same level with playerCount alive rockets and the
   level's balls, level, score and nextLifeAt keep their values and the
   phase stays running; with a rocket alive, lives is not decremented and
   the level is not respawned. *)
C15_RespawnOnLoss ==
  tr.ran =>
    /\ Respawning =>
         /\ tr.post.lives = tr.upd.lives - 1
         /\ FreshSpawn(tr.post, playerCount)
         /\ tr.post.level = tr.upd.level
         /\ tr.post.score = tr.upd.score
         /\ tr.post.nextLifeAt = tr.upd.nextLifeAt
         /\ tr.post.gameState = "running"
    /\ aliveRockets(tr.upd) # {} =>
         /\ tr.post.lives = tr.upd.lives
         /\ tr.post.heap = tr.upd.heap
         /\ tr.post.objects = tr.upd.objects
         /\ tr.post.rockets = tr.upd.rockets

(* the same for a game started with a player count of 1 to 5 *)
C15_RespawnOnLossValid ==
  playerCount \in 1..5 => C15_RespawnOnLoss

C15_Witness == Respawning /\ playerCount \in 1..5 /\ tr.upd.score > 0

(* the place of an object in a collection *)
Place(seq, id) == CHOOSE k \in 1..Len(seq) : seq[k] = id

(* C16: objects leave the ordered collection only in the filter pass that
   follows the collision pass of a tick, or when the whole level is
   cleared: input, physics and collision passes remove nothing, the filter
   removes exactly the not-alive objects, so none remains after it, and
   the survivors keep their relative order. *)
C16_SingleFilterPass ==
  [][ /\ objects' # objects => lastOp' \in {"gameLoop", "startGame", "restartLevel"}
      /\ tr'.ran =>
           /\ tr'.inp.objects = tr'.pre.objects
           /\ tr'.phys.objects = tr'.pre.objects
           /\ tr'.coll.objects = tr'.pre.objects
           /\ Ids(tr'.upd) = {id \in Ids(tr'.coll) : tr'.coll.heap[id].live}
           /\ Len(tr'.upd.objects) = Cardinality(Ids(tr'.upd))
           /\ \A a, b \in 1..Len(tr'.upd.objects) :
                 a < b => Place(tr'.coll.objects, tr'.upd.objects[a])
                            < Place(tr'.coll.objects, tr'.upd.objects[b])
           /\ tr'.post.objects # tr'.upd.objects
                => aliveRockets(tr'.upd) = {} /\ tr'.upd.lives > 1 ]_vars

(* a tick removed a dead object standing between two survivors *)
C16_Witness ==
  /\ tr.ran
  /\ \E k \in 2..(Len(tr.coll.objects) - 1) :
        /\ ~tr.coll.heap[tr.coll.objects[k]].live
        /\ tr.coll.heap[tr.coll.objects[k - 1]].live
        /\ tr.coll.heap[tr.coll.objects[k + 1]].live
        /\ tr.coll.objects[k] \notin Ids(tr.upd)

(* the objects of a view that are no longer alive *)
Dead(v) == {id \in DOMAIN v.heap : ~v.heap[id].live}

(* every object dead in view v is the same record in view w *)
Untouched(v, w) ==
  \A id \in Dead(v) : id \in DOMAIN w.heap /\ w.heap[id] = v.heap[id]

(* the object a resolved Hole contact killed, 0 when it killed none *)
Killed(i) ==
  IF i \in HoleHits(ROCKET) \cup HoleHits(BALL_SMALL) \cup HoleHits(BALL_LARGE)
       /\ ~tr.hits[i].separating
  THEN Visitor(i) ELSE 0

(* C17: an object whose alive flag is false never becomes alive again, and
   its position, velocity, accumulated force and mass are left as they are
   by input processing, integration, the bounds check and collision
   handling, in the tick it died in and in every later handler call, for as
   long as the level that holds it is not cleared. *)
C17_DeadStayUntouched ==
  [][ /\ (nKeyEvents' # nKeyEvents \/ lastOp' \in {"pause", "resume", "stop"}
            \/ (lastOp' = "gameLoop" /\ ~tr'.ran))
           => Untouched(Eng, [heap |-> heap'])
      /\ (nKeyEvents' = nKeyEvents /\ tr'.ran) =>
           /\ Untouched(Eng, tr'.inp)
           /\ Untouched(tr'.inp, tr'.phys)
           /\ Untouched(tr'.phys, tr'.coll)
           /\ Untouched(tr'.coll, tr'.upd)
           /\ tr'.post.objects = tr'.upd.objects => Untouched(tr'.upd, tr'.post)
           /\ \A i, j \in 1..Len(tr'.hits) :
                 i < j => Killed(i)' \notin {tr'.hits[j].a, tr'.hits[j].b} ]_vars

(* a tick began with a dead rocket still in the rocket list while its
   player held a key *)
C17_Witness ==
  /\ tr.ran
  /\ \E k \in 1..Len(tr.pre.rockets) :
        /\ ~tr.pre.heap[tr.pre.rockets[k]].live
        /\ playerControls[k - 1] # NoControls

(* ---- applyGravity on its own ---- *)

(* the objects gravity is applied to: where they stand, what they are and
   the force they have accumulated so far *)
GravityProbes == SpawnPrefs \cup {[x |-> 60 * SCALE, y |-> 150 * SCALE]}
GravityTypes == {ROCKET, BALL_LARGE, HOLE}
GravityForces == {0, 80}

ApplyGravity ==
  /\ lastOp = "constructor"
  /\ \E at \in GravityProbes : \E type \in GravityTypes : \E f \in GravityForces :
       \E e \in {createGameObject(Eng, [type |-> type, x |-> at.x, y |-> at.y,
                                        vx |-> 0, vy |-> 0, playerId |-> 0])} :
          \E id \in {Len(e.heap)} :
             \E e1 \in {[e EXCEPT !.heap[id].fx = f, !.heap[id].fy = f]} :
                log' = << Call("applyGravity", e1.heap[id]),
                          Returned("applyGravity", applyGravity(e1, id).heap[id]) >>
  /\ lastOp' = "applyGravity"
  /\ UNCHANGED <<disabled, app, gameState, level, score, lives, nextLifeAt, playerCount, heap,
                 objects, rockets, keys, playerControls, tr, nTicks, nSpawns,
                 nKeyEvents>>

NextGravity == ApplyGravity

SpecGravity == InitSpawn /\ [][NextGravity]_vars

(* MIN_GRAVITY_DISTANCE < d < MAX_GRAVITY_DISTANCE for the distance d
   between two centres *)
InBand(obj, hole) ==
  LET d2 == Dist2(obj.x, obj.y, hole.x, hole.y)
  IN Above(d2, MIN_GRAVITY_DISTANCE * SCALE) /\ Below(d2, MAX_GRAVITY_DISTANCE * SCALE)

(* GRAVITY_STRENGTH / d^2 along the unit vector from the object to the
   hole, in units of 1/SCALE *)
Pull(obj, hole) ==
  LET d == Sqrt(Dist2(obj.x, obj.y, hole.x, hole.y))
      magnitude == Div(GRAVITY_STRENGTH * SCALE * SCALE * SCALE, d * d)
  IN [x |-> Div(magnitude * (hole.x - obj.x), d),
      y |-> Div(magnitude * (hole.y - obj.y), d)]

RECURSIVE SumPull(_, _, _)
SumPull(obj, hs, axis) ==
  IF hs = {} THEN 0
  ELSE LET h == CHOOSE h \in hs : TRUE
       IN (IF axis = "x" THEN Pull(obj, heap[h]).x ELSE Pull(obj, heap[h]).y)
            + SumPull(obj, hs \ {h}, axis)

(* C18: applyGravity adds to a non-Hole object's force, for each alive Hole
   at centre distance d with MIN_GRAVITY_DISTANCE < d < MAX_GRAVITY_DISTANCE,
   a contribution of magnitude GRAVITY_STRENGTH / d^2 directed toward that
   hole, and nothing for a hole at d <= MIN_GRAVITY_DISTANCE or
   d >= MAX_GRAVITY_DISTANCE; a Hole receives no gravity and a not-alive
   Hole exerts none.  Sums agree to within 2/SCALE per contribution, the
   rounding of the fixed point. *)
C18_GravityBand ==
  lastOp = "applyGravity"
    => LET obj == log[1].data
           out == log[2].data
           pulling == IF obj.type = HOLE THEN {}
                      ELSE {h \in Live(HOLE) : InBand(obj, heap[h])}
       IN /\ Abs((out.fx - obj.fx) - SumPull(obj, pulling, "x"))
               <= 2 * Cardinality(pulling)
          /\ Abs((out.fy - obj.fy) - SumPull(obj, pulling, "y"))
               <= 2 * Cardinality(pulling)
          /\ [out EXCEPT !.fx = obj.fx, !.fy = obj.fy] = obj

(* an object with force already accumulated, pulled by an alive Hole in
   the band while another alive Hole is out of the band *)
C18_Witness ==
  /\ lastOp = "applyGravity"
  /\ log[1].data.type # HOLE
  /\ log[1].data.fx # 0
  /\ log[2].data.fx # log[1].data.fx
  /\ \E h \in Live(HOLE) : InBand(log[1].data, heap[h])
  /\ \E h \in Live(HOLE) : ~InBand(log[1].data, heap[h])

(* the handleCollision calls of the tick that an object took part in, and
   those of one ordered pair *)
Contacts(id) == {i \in 1..Len(tr.hits) : id \in {tr.hits[i].a, tr.hits[i].b}}
Resolved(a, b) == {i \in 1..Len(tr.hits) : tr.hits[i].a = a /\ tr.hits[i].b = b}

(* centre distance strictly less than the sum of the radii *)
Overlapping(v, a, b) ==
  /\ ~v.heap[a].nan /\ ~v.heap[b].nan
  /\ Below(Dist2(v.heap[a].x, v.heap[a].y, v.heap[b].x, v.heap[b].y),
           v.heap[a].radius + v.heap[b].radius)

(* C19: the collision pass of a tick visits the unordered pairs of objects
   once each, in index order, and calls collision resolution for a pair
   exactly when both are alive at the visit and their centre distance is
   strictly less than the sum of their radii: no pair is resolved twice
   and none with a not-alive member.  The distance at the visit is the one
   after physics for a pair neither member of which met a third object. *)
C19_PairsOnce ==
  tr.ran =>
    /\ \A i \in 1..Len(tr.hits) :
          /\ {tr.hits[i].a, tr.hits[i].b} \subseteq Ids(tr.phys)
          /\ Place(tr.phys.objects, tr.hits[i].a) < Place(tr.phys.objects, tr.hits[i].b)
          /\ tr.phys.heap[tr.hits[i].a].live /\ tr.phys.heap[tr.hits[i].b].live
    /\ \A i, j \in 1..Len(tr.hits) :
          i < j =>
            /\ Killed(i) \notin {tr.hits[j].a, tr.hits[j].b}
            /\ \/ Place(tr.phys.objects, tr.hits[i].a) < Place(tr.phys.objects, tr.hits[j].a)
               \/ /\ tr.hits[i].a = tr.hits[j].a
                  /\ Place(tr.phys.objects, tr.hits[i].b) < Place(tr.phys.objects, tr.hits[j].b)
    /\ \A a, b \in Ids(tr.phys) :
          ( /\ Place(tr.phys.objects, a) < Place(tr.phys.objects, b)
            /\ tr.phys.heap[a].live /\ tr.phys.heap[b].live
            /\ Contacts(a) \cup Contacts(b) \subseteq Resolved(a, b) )
            => (Resolved(a, b) # {} <=> Overlapping(tr.phys, a, b))

(* a tick resolved two pairs or more, one of them met by no third object *)
C19_Witness ==
  /\ tr.ran
  /\ Len(tr.hits) >= 2
  /\ \E i \in 1..Len(tr.hits) :
        Contacts(tr.hits[i].a) \cup Contacts(tr.hits[i].b) = {i}

(* ---- handleCollision on its own ---- *)

(* the two overlapping objects handed to handleCollision: their kinds, the
   offset of the second from the first (offsets whose unit normal the
   fixed point represents exactly) and their velocities *)
CollisionTypes == {ROCKET, BALL_SMALL, BALL_LARGE, HOLE, BBALL}
CollisionOffsets ==
  {<<1000, 0>>, <<0, -500>>, <<600, 800>>, <<-800, 600>>, <<300, -400>>}
CollisionVelocities == {<<0, 0>>, <<200, -100>>, <<-300, 50>>, <<-400, -400>>}

InitCollision ==
  \E t1, t2 \in CollisionTypes : \E off \in CollisionOffsets :
    \E v1, v2 \in CollisionVelocities :
     \E e0 \in {[gameState |-> "running", level |-> 3, score |-> 0,
                 lives |-> StartLives, nextLifeAt |-> LifeStep,
                 playerCount |-> 1, heap |-> << >>, objects |-> << >>,
                 rockets |-> << >>, log |-> << >>, hits |-> << >>,
                 thrown |-> FALSE]} :
      \E e \in {createGameObject(
                  createGameObject(e0, [type |-> t1, x |-> 200 * SCALE, y |-> 150 * SCALE,
                                        vx |-> v1[1], vy |-> v1[2], playerId |-> 0]),
                  [type |-> t2, x |-> 200 * SCALE + off[1], y |-> 150 * SCALE + off[2],
                   vx |-> v2[1], vy |-> v2[2], playerId |-> 0])} :
        /\ gameState = e.gameState
        /\ level = e.level
        /\ score = e.score
        /\ lives = e.lives
        /\ nextLifeAt = e.nextLifeAt
        /\ playerCount = e.playerCount
        /\ heap = e.heap
        /\ objects = e.objects
        /\ rockets = e.rockets
        /\ keys = {}
        /\ playerControls = updatePlayerControls({})
        /\ log = << >>
        /\ tr = NoTrace(e)
        /\ lastOp = "constructor"
        /\ nTicks = 0
        /\ nSpawns = 0
        /\ nKeyEvents = 0
        /\ disabled = FALSE
        /\ app = MainMenu

HandleCollision ==
  /\ lastOp = "constructor"
  /\ \E dx \in {heap[2].x - heap[1].x} : \E dy \in {heap[2].y - heap[1].y} :
       \E distance \in {Sqrt(dx * dx + dy * dy)} :
          \E e \in {handleCollision(Eng, 1, 2, dx, dy, distance)} :
             log' = << Call("handleCollision",
                            [obj1 |-> heap[1], obj2 |-> heap[2],
                             dx |-> dx, dy |-> dy, distance |-> distance]),
                       Returned("handleCollision",
                                [obj1 |-> e.heap[1], obj2 |-> e.heap[2],
                                 score |-> e.score, lives |-> e.lives,
                                 nextLifeAt |-> e.nextLifeAt]) >>
  /\ lastOp' = "handleCollision"
  /\ UNCHANGED <<disabled, app, gameState, level, score, lives, nextLifeAt, playerCount, heap,
                 objects, rockets, keys, playerControls, tr, nTicks, nSpawns,
                 nKeyEvents>>

NextCollision == HandleCollision

SpecCollision == InitCollision /\ [][NextCollision]_vars

(* SCALE^2 times the velocity of o2 relative to o1 along the normal of a
   handleCollision call *)
NormalVelocity(call, o1, o2) ==
  (o2.vx - o1.vx) * Div(call.dx * SCALE, call.distance)
    + (o2.vy - o1.vy) * Div(call.dy * SCALE, call.distance)

(* C20: for a pair handled by collision resolution at distance > 0, the
   total momentum m1*v1 + m2*v2 is the same in each component before and
   after; if the two were approaching, their relative velocity along the
   collision normal is negated; if they were separating, both velocities
   are left as they were.  Equalities hold to within the rounding of the
   fixed point, (m1 + m2) / SCALE for momentum and (m1 + m2 + 5) / SCALE
   for the normal velocity. *)
C20_ElasticImpulse ==
  lastOp = "handleCollision"
    => LET call == log[1].data
           in1 == call.obj1
           in2 == call.obj2
           out1 == log[2].data.obj1
           out2 == log[2].data.obj2
           before == NormalVelocity(call, in1, in2)
           after == NormalVelocity(call, out1, out2)
       IN /\ Abs(in1.mass * (out1.vx - in1.vx) + in2.mass * (out2.vx - in2.vx))
               <= in1.mass + in2.mass
          /\ Abs(in1.mass * (out1.vy - in1.vy) + in2.mass * (out2.vy - in2.vy))
               <= in1.mass + in2.mass
          /\ before < 0 => Abs(after + before) <= (in1.mass + in2.mass + 5) * SCALE
          /\ before > 0 => /\ out1.vx = in1.vx /\ out1.vy = in1.vy
                           /\ out2.vx = in2.vx /\ out2.vy = in2.vy

(* a resolved pair of unequal masses, both moving, that was approaching
   obliquely *)
C20_Witness ==
  /\ lastOp = "handleCollision"
  /\ log[1].data.obj1.mass # log[1].data.obj2.mass
  /\ log[1].data.dx # 0 /\ log[1].data.dy # 0
  /\ log[1].data.obj1.vx # 0 /\ log[1].data.obj2.vx # 0
  /\ NormalVelocity(log[1].data, log[1].data.obj1, log[1].data.obj2) < -100 * SCALE
  /\ log[2].data.obj1.vx # log[1].data.obj1.vx

(* C21: resolving two overlapping circles at centre distance d,
   0 < d < r1 + r2, moves each centre by (r1 + r2 - d) / 2 along the
   collision normal, the first against it and the second along it,
   whatever the masses, so that the new centre distance is r1 + r2.
   Equalities hold to within 1/SCALE per coordinate, the rounding of the
   fixed point. *)
C21_EvenSeparation ==
  lastOp = "handleCollision"
    => LET call == log[1].data
           in1 == call.obj1
           in2 == call.obj2
           out1 == log[2].data.obj1
           out2 == log[2].data.obj2
           reach == in1.radius + in2.radius
           half == Div(reach - call.distance, 2)
       IN /\ Abs((in1.x - out1.x) * call.distance - call.dx * half) <= call.distance
          /\ Abs((in1.y - out1.y) * call.distance - call.dy * half) <= call.distance
          /\ Abs((out2.x - in2.x) * call.distance - call.dx * half) <= call.distance
          /\ Abs((out2.y - in2.y) * call.distance - call.dy * half) <= call.distance
          /\ Abs(Sqrt(Dist2(out1.x, out1.y, out2.x, out2.y)) - reach) <= 2

(* a resolved pair of unequal masses and unequal radii that overlapped
   obliquely and was separating, so that only the positions changed *)
C21_Witness ==
  /\ lastOp = "handleCollision"
  /\ log[1].data.obj1.mass # log[1].data.obj2.mass
  /\ log[1].data.obj1.radius # log[1].data.obj2.radius
  /\ log[1].data.dx # 0 /\ log[1].data.dy # 0
  /\ 0 < log[1].data.distance
  /\ log[1].data.distance < log[1].data.obj1.radius + log[1].data.obj2.radius
  /\ NormalVelocity(log[1].data, log[1].data.obj1, log[1].data.obj2) > 0
  /\ log[2].data.obj1.x # log[1].data.obj1.x

(* C22: a Hole is stationary: no tick changes its position or its
   velocity, ticks in which a ball or a rocket collides with it included. *)
C22_HolesStationary ==
  tr.ran =>
    \A id \in Ids(tr.pre) :
       tr.pre.heap[id].type = HOLE
         => /\ Kinematics(tr.phys.heap[id]) = Kinematics(tr.pre.heap[id])
            /\ Kinematics(tr.coll.heap[id]) = Kinematics(tr.pre.heap[id])

(* ---- the integration step of updatePhysics on its own ---- *)

(* the object integrated: its kind, its velocity before the step (a ball
   can be faster than 6 after an impulse) and the force on it *)
IntegrateTypes == {ROCKET, BALL_SMALL, BALL_LARGE, HOLE}
IntegrateVelocities ==
  {<<0, 0>>, <<500, 0>>, <<900, 0>>, <<600, -800>>, <<-300, 400>>, <<0, 650>>}
IntegrateForces == {<<0, 0>>, <<80, 0>>, <<0, -2000>>}

InitIntegrate ==
  \E type \in IntegrateTypes : \E v \in IntegrateVelocities : \E f \in IntegrateForces :
     \E e0 \in {createGameObject(
                  [gameState |-> "running", level |-> 3, score |-> 0,
                   lives |-> StartLives, nextLifeAt |-> LifeStep,
                   playerCount |-> 1, heap |-> << >>, objects |-> << >>,
                   rockets |-> << >>, log |-> << >>, hits |-> << >>,
                   thrown |-> FALSE],
                  [type |-> type, x |-> 200 * SCALE, y |-> 150 * SCALE,
                   vx |-> v[1], vy |-> v[2], playerId |-> 0])} :
      \E e \in {[e0 EXCEPT !.heap[1].fx = f[1], !.heap[1].fy = f[2]]} :
        /\ gameState = e.gameState
        /\ level = e.level
        /\ score = e.score
        /\ lives = e.lives
        /\ nextLifeAt = e.nextLifeAt
        /\ playerCount = e.playerCount
        /\ heap = e.heap
        /\ objects = e.objects
        /\ rockets = e.rockets
        /\ keys = {}
        /\ playerControls = updatePlayerControls({})
        /\ log = << >>
        /\ tr = NoTrace(e)
        /\ lastOp = "constructor"
        /\ nTicks = 0
        /\ nSpawns = 0
        /\ nKeyEvents = 0
        /\ disabled = FALSE
        /\ app = MainMenu

Integrate ==
  /\ lastOp = "constructor"
  /\ log' = << Call("integrate", heap[1]), Returned("integrate", integrate(heap[1])) >>
  /\ lastOp' = "integrate"
  /\ UNCHANGED <<disabled, app, gameState, level, score, lives, nextLifeAt, playerCount, heap,
                 objects, rockets, keys, playerControls, tr, nTicks, nSpawns,
                 nKeyEvents>>

NextIntegrate == Integrate

SpecIntegrate == InitIntegrate /\ [][NextIntegrate]_vars

(* velocity plus acceleration times deltaTime, times the friction of the kind *)
Unclamped(obj, v, f) ==
  LET v1 == v + Div(Div(f, obj.mass) * DeltaFrames, 60)
  IN IF obj.type = ROCKET THEN Frac(v1, 98, 100) ELSE Frac(v1, 995, 1000)

(* C23: the integration step applies no speed cap: the velocity it leaves
   is the velocity after acceleration and friction, not clamped to any
   maximum of the kind, and the position advances by it. *)
C23_NoSpeedCap ==
  lastOp = "integrate"
    => LET obj == log[1].data
           out == log[2].data
       IN /\ out.vx = Unclamped(obj, obj.vx, obj.fx)
          /\ out.vy = Unclamped(obj, obj.vy, obj.fy)
          /\ out.x = obj.x + out.vx
          /\ out.y = obj.y + out.vy

(* C24: when an object collides with a Hole and is removed by it, the
   Hole's mass grows by a fraction of that object's mass: after the
   collision pass of the tick the Hole is heavier than before it. *)
C24_HoleGainsMass ==
  tr.ran =>
    \A i \in 1..Len(tr.hits) :
       Killed(i) # 0
         => tr.coll.heap[HoleOf(i)].mass > tr.phys.heap[HoleOf(i)].mass

(* C25: every object created by level initialization carries playerId -1
   when it is not a rocket, and i when it is the rocket of player i, for
   every i from 0 on. *)
C25_OwnerIndex ==
  (lastOp \in {"startGame", "restartLevel"} /\ Thrown(log) = {})
    => /\ \A id \in Ids(Eng) : heap[id].type # ROCKET => heap[id].playerId = -1
       /\ \A k \in 1..Len(rockets) : heap[rockets[k]].playerId = k - 1

(* ---- level initialization over all player counts and levels ---- *)

MaxLevel == 8
MaxDraws == 3

(* one set of spawn draws, long enough for any level: fifteen balls in two
   rows, every fourth one large, three holes, two big balls *)
LayoutGrid(draw) ==
  [balls |-> [i \in 1..15 |->
                Ball((i + draw) % 4 = 0, (40 + 20 * i) * SCALE,
                     (IF i % 2 = 0 THEN 60 ELSE 240) * SCALE, 10 * draw, -10 * draw)],
   holes |-> [k \in 1..3 |-> At((40 + 80 * k) * SCALE, 150 * SCALE)],
   bballs |-> [k \in 1..2 |-> Moving((80 + 80 * k) * SCALE, 110 * SCALE, 0, 0)]]

StartLevel ==
  /\ lastOp = "constructor"
  /\ \E P \in 1..5 : \E L \in 1..MaxLevel : \E draw \in 1..MaxDraws :
       \E cfg \in {[playerCount |-> P, level |-> L]} :
          \E e \in {startGame([Eng EXCEPT !.log = << Call("startGame", cfg) >>],
                              cfg, LayoutGrid(draw))} :
             Install(e, "startGame") /\ tr' = NoTrace(e)
  /\ nSpawns' = 1
  /\ nTicks' = 0
  /\ UNCHANGED <<disabled, app, keys, playerControls, nKeyEvents>>

SpecLevel == Init /\ [][StartLevel]_vars

(* the alive objects of a kind in the collection *)
Census(kinds) == Cardinality({id \in Live(ROCKET) \cup Live(BALL_SMALL)
                                 \cup Live(BALL_LARGE) \cup Live(HOLE) \cup Live(BBALL) :
                                heap[id].type \in kinds})

(* C26: for every level L >= 1 and player count P in 1..5, level
   initialization spawns exactly P rockets, min(8 + L, 15) balls,
   min(L - 2, 3) Holes when L > 2 and none otherwise, min(L - 3, 2)
   BigBalls when L > 3 and none otherwise, all alive and nothing else. *)
C26_SpawnCounts ==
  (lastOp = "startGame" /\ Asked(log).playerCount \in 1..5 /\ Asked(log).level >= 1)
    => LET P == Asked(log).playerCount
           L == Asked(log).level
       IN /\ Len(rockets) = P
          /\ Census({ROCKET}) = P
          /\ Census({BALL_SMALL, BALL_LARGE}) = Min(8 + L, 15)
          /\ Census({HOLE}) = IF L > 2 THEN Min(L - 2, 3) ELSE 0
          /\ Census({BBALL}) = IF L > 3 THEN Min(L - 3, 2) ELSE 0
          /\ Len(objects) = Census({ROCKET, BALL_SMALL, BALL_LARGE, HOLE, BBALL})

(* five players at a level where the ball count is capped and both kinds
   of special object are spawned, balls of both sizes among them *)
C26_Witness ==
  /\ lastOp = "startGame"
  /\ Asked(log).playerCount = 5
  /\ Asked(log).level = 8
  /\ Census({BALL_SMALL}) > 0 /\ Census({BALL_LARGE}) > 0
  /\ Census({HOLE}) = 3 /\ Census({BBALL}) = 2

(* ---- the bounds check of the classic (bouncing-walls) engine ---- *)

keepInBoundsClassicDeadly(e, id) == keepInBounds(e, id)

(* keepInBounds of the classic engine: rockets die at a wall, everything
   else is put back at the margin and bounces with restitution 0.8 *)
keepInBoundsClassic(e, id) ==
  LET obj == e.heap[id]
      margin == obj.radius
      hitLeft == ~obj.nan /\ obj.x < margin
      hitRight == ~obj.nan /\ obj.x > ScreenWidth - margin
      hitTop == ~obj.nan /\ obj.y < margin
      hitBottom == ~obj.nan /\ obj.y > ScreenHeight - margin
  IN IF ~(hitLeft \/ hitRight \/ hitTop \/ hitBottom) THEN e
     ELSE IF obj.type = ROCKET
     THEN [e EXCEPT !.heap[id].live = FALSE,
                    !.log = Append(@, Sound("rocketDeath"))]
     ELSE LET o1 == IF hitLeft
                    THEN [obj EXCEPT !.x = margin, !.vx = Frac(Abs(@), 8, 10)]
                    ELSE obj
              o2 == IF hitRight
                    THEN [o1 EXCEPT !.x = ScreenWidth - margin,
                                    !.vx = -Frac(Abs(@), 8, 10)]
                    ELSE o1
              o3 == IF hitTop
                    THEN [o2 EXCEPT !.y = margin, !.vy = Frac(Abs(@), 8, 10)]
                    ELSE o2
              o4 == IF hitBottom
                    THEN [o3 EXCEPT !.y = ScreenHeight - margin,
                                    !.vy = -Frac(Abs(@), 8, 10)]
                    ELSE o3
          IN [e EXCEPT !.heap[id] = o4]

(* where the object stands after its integration: inside, across each
   edge, across two edges at a corner, and far outside *)
EdgeSpots ==
  { At(200 * SCALE, 150 * SCALE), At(5 * SCALE, 150 * SCALE),
    At(398 * SCALE, 150 * SCALE), At(200 * SCALE, 3 * SCALE),
    At(200 * SCALE, 299 * SCALE), At(2 * SCALE, 2 * SCALE),
    At(399 * SCALE, 299 * SCALE), At(-10 * SCALE, 150 * SCALE) }

ClassicBoundsCheck ==
  /\ lastOp = "constructor"
  /\ \E at \in EdgeSpots :
       \E e \in {[Eng EXCEPT !.heap[1].x = at.x, !.heap[1].y = at.y]} :
          log' = << Call("keepInBounds", e.heap[1]),
                    Returned("keepInBounds", keepInBoundsClassic(e, 1).heap[1]) >>
  /\ lastOp' = "keepInBounds"
  /\ UNCHANGED <<disabled, app, gameState, level, score, lives, nextLifeAt, playerCount, heap,
                 objects, rockets, keys, playerControls, tr, nTicks, nSpawns,
                 nKeyEvents>>

SpecClassic == InitIntegrate /\ [][ClassicBoundsCheck]_vars

(* C27: in the classic engine the bounds check never kills a non-Rocket
   object that crossed a screen edge: it puts the object back at exactly
   one radius from that edge and leaves the velocity component normal to
   the edge pointing inward with 0.8 times its magnitude, the other axis
   untouched; a Rocket that crossed an edge is marked not alive. *)
C27_ClassicBounce ==
  lastOp = "keepInBounds"
    => LET obj == log[1].data
           out == log[2].data
           left == obj.x < obj.radius
           right == obj.x > ScreenWidth - obj.radius
           top == obj.y < obj.radius
           bottom == obj.y > ScreenHeight - obj.radius
       IN IF obj.type = ROCKET
          THEN (left \/ right \/ top \/ bottom) => ~out.live
          ELSE /\ out.live
               /\ left => out.x = obj.radius /\ out.vx = Div(8 * Abs(obj.vx), 10)
               /\ right => /\ out.x = ScreenWidth - obj.radius
                           /\ out.vx = -Div(8 * Abs(obj.vx), 10)
               /\ top => out.y = obj.radius /\ out.vy = Div(8 * Abs(obj.vy), 10)
               /\ bottom => /\ out.y = ScreenHeight - obj.radius
                            /\ out.vy = -Div(8 * Abs(obj.vy), 10)
               /\ ~(left \/ right) => out.x = obj.x /\ out.vx = obj.vx
               /\ ~(top \/ bottom) => out.y = obj.y /\ out.vy = obj.vy

(* a ball across the bottom-right corner, moving outward through the right
   edge, was put back at one radius from both edges with its horizontal
   velocity turned inward *)
C27_Witness ==
  /\ lastOp = "keepInBounds"
  /\ IsBall(log[1].data.type)
  /\ log[1].data.x > ScreenWidth - log[1].data.radius
  /\ log[1].data.y > ScreenHeight - log[1].data.radius
  /\ log[1].data.vx > 0 /\ log[1].data.vy # 0
  /\ log[2].data.vx < 0
  /\ log[2].data.x = ScreenWidth - log[1].data.radius
  /\ log[2].data.y = ScreenHeight - log[1].data.radius
  /\ log[2].data.live

(* C28: a collision between two rockets, or between a rocket and a
   BallSmall, BallLarge or BigBall, applies the generic separation and
   impulse only: neither object's alive flag changes and score, lives and
   nextLifeAt are what they were. *)
C28_RocketContactHarmless ==
  lastOp = "handleCollision"
    => LET kinds == {log[1].data.obj1.type, log[1].data.obj2.type}
           out == log[2].data
       IN (ROCKET \in kinds /\ kinds \subseteq {ROCKET, BALL_SMALL, BALL_LARGE, BBALL})
            => /\ out.obj1.live = log[1].data.obj1.live
               /\ out.obj2.live = log[1].data.obj2.live
               /\ out.score = score
               /\ out.lives = lives
               /\ out.nextLifeAt = nextLifeAt
               /\ out.obj1.x # log[1].data.obj1.x \/ out.obj1.y # log[1].data.obj1.y

(* an approaching rocket and big ball were resolved: the rocket's velocity
   changed and both are alive *)
C28_Witness ==
  /\ lastOp = "handleCollision"
  /\ log[1].data.obj1.type = ROCKET /\ log[1].data.obj2.type = BBALL
  /\ NormalVelocity(log[1].data, log[1].data.obj1, log[1].data.obj2) < 0
  /\ log[2].data.obj1.vx # log[1].data.obj1.vx
  /\ log[2].data.obj1.live /\ log[2].data.obj2.live

(* ---- processInput on one rocket ---- *)

(* the keys of player 0 that may be held during the tick *)
HeldKeys == SUBSET {"ArrowUp", "ArrowLeft", "ArrowRight", " "}

ProcessInput ==
  /\ lastOp = "constructor"
  /\ heap[1].type = ROCKET
  /\ \E ks \in HeldKeys :
       \E pc \in {updatePlayerControls(ks)} :
          \E e \in {processInput([Eng EXCEPT !.rockets = << 1 >>], pc)} :
             log' = << Call("processInput", [rocket |-> heap[1], controls |-> pc[0]]),
                       Returned("processInput", e.heap[1]) >>
  /\ lastOp' = "processInput"
  /\ UNCHANGED <<disabled, app, gameState, level, score, lives, nextLifeAt, playerCount, heap,
                 objects, rockets, keys, playerControls, tr, nTicks, nSpawns,
                 nKeyEvents>>

SpecInput == InitIntegrate /\ [][ProcessInput]_vars

(* the force the direction keys alone give a rocket along an axis *)
Thrust(minus, plus) ==
  (IF plus THEN thrustForce ELSE 0) - (IF minus THEN thrustForce ELSE 0)

(* C29: for an alive rocket with brake held, input processing does both in
   the same tick: the force is the thrust of the direction keys minus one
   tenth of the velocity as it was before damping, and the velocity is
   multiplied by 0.95; with brake not held the force is the thrust alone
   and the velocity is untouched. *)
C29_BrakeBothEffects ==
  lastOp = "processInput"
    => LET rocket == log[1].data.rocket
           c == log[1].data.controls
           out == log[2].data
       IN IF c.brake
          THEN /\ out.fx = Thrust(c.left, c.right) - Div(rocket.vx, 10)
               /\ out.fy = Thrust(c.up, c.down) - Div(rocket.vy, 10)
               /\ out.vx = Div(95 * rocket.vx, 100)
               /\ out.vy = Div(95 * rocket.vy, 100)
          ELSE /\ out.fx = Thrust(c.left, c.right)
               /\ out.fy = Thrust(c.up, c.down)
               /\ out.vx = rocket.vx
               /\ out.vy = rocket.vy

(* a moving rocket carrying force from the tick before braked while
   thrusting to the right *)
C29_Witness ==
  /\ lastOp = "processInput"
  /\ log[1].data.controls.brake /\ log[1].data.controls.right
  /\ log[1].data.rocket.live
  /\ log[1].data.rocket.vx > 0 /\ log[1].data.rocket.vy < 0
  /\ log[1].data.rocket.fy # 0
  /\ log[2].data.vx < log[1].data.rocket.vx
  /\ log[2].data.fx # thrustForce

----------------------------------------------------------------------------
(* AudioManager: playSound, and the tick as seen with an audio manager *)

soundDefinitions ==
  [collision |-> "noise", ballInHole |-> "tone", rocketThrust |-> "noise",
   gameStart |-> "tone", gameOver |-> "tone", levelComplete |-> "melody",
   menuSelect |-> "tone", menuMove |-> "tone"]

(* what a playSound call can meet: the enabled flag, the audio context
   (absent, running or suspended) and whether playTone, playNoise and
   playMelody raise *)
AudioStates ==
  [enabled : BOOLEAN, audioContext : {"none", "running", "suspended"},
   synthesis : {"ok", "raises"}]

WorkingAudio == [enabled |-> TRUE, audioContext |-> "running", synthesis |-> "ok"]

Outcome(raised, played, warned) ==
  [raised |-> raised, played |-> played, warned |-> warned]

(* the same without the try block around the synthesis *)
playSoundUncaught(am, soundName) ==
  IF ~am.enabled \/ am.audioContext = "none" THEN Outcome(FALSE, FALSE, FALSE)
  ELSE IF soundName \notin DOMAIN soundDefinitions THEN Outcome(FALSE, FALSE, TRUE)
  ELSE IF am.synthesis = "raises" THEN Outcome(TRUE, FALSE, FALSE)
  ELSE Outcome(FALSE, TRUE, FALSE)

playSound(am, soundName) ==
  IF ~am.enabled \/ am.audioContext = "none" THEN Outcome(FALSE, FALSE, FALSE)
  ELSE IF soundName \notin DOMAIN soundDefinitions THEN Outcome(FALSE, FALSE, TRUE)
  ELSE IF am.synthesis = "raises" THEN Outcome(FALSE, FALSE, TRUE)
  ELSE Outcome(FALSE, TRUE, FALSE)

(* every this.audioManager.playSound(name) of a log with what the call did *)
WithAudio(am, lg) ==
  [i \in 1..Len(lg) |->
     IF lg[i].ch = "sound"
     THEN [lg[i] EXCEPT !.data = [volume |-> 1, outcome |-> playSound(am, lg[i].name)]]
     ELSE lg[i]]

Raising(lg) == {i \in 1..Len(lg) : lg[i].ch = "sound" /\ lg[i].data.outcome.raised}

(* gameLoop with the audio manager am behind it.  playSound returns
   nothing, so a call that returns leaves the passes as they are.  gameLoop
   catches nothing: a call that raises ends the tick inside updatePhysics
   (keepInBounds) or checkCollisions, the only passes that play sounds; the
   model then keeps the result of the passes completed before it. *)
Settle(p, done, lg) ==
  IF Raising(lg) = {}
  THEN [done EXCEPT !.log = lg]
  ELSE LET k == CHOOSE i \in Raising(lg) : \A j \in Raising(lg) : i <= j
           kept == IF k <= Len(p.phys.log) THEN p.inp ELSE p.phys
       IN Raise([kept EXCEPT !.log = SubSeq(lg, 1, k)], "playSound")

(* checkGameState and the closing scoreUpdate after the passes p, with the
   audio manager am behind every playSound of the tick *)
Delivered(p, lay, am) ==
  CHOOSE r \in
    UNION { { Settle(p, done, lg) : lg \in {WithAudio(am, done.log)} } :
            done \in {Finish(p.upd, lay)} } : TRUE

gameLoopWith(e, pc, lay, am) ==
  CHOOSE r \in { Delivered(p, lay, am) : p \in {Passes(e, pc)} } : TRUE

AudioTick ==
  IF ~gameLoopRuns(Eng)
  THEN /\ Install(Eng, "gameLoop")
       /\ tr' = NoTrace(Eng)
       /\ UNCHANGED <<disabled, app, keys, playerControls, nTicks, nSpawns, nKeyEvents>>
  ELSE /\ nTicks < MaxTicks
       /\ \E p \in {Passes(Eng, playerControls)} :
            \E respawns \in {aliveRockets(p.upd) = {} /\ lives > 1} :
               /\ respawns => nSpawns < MaxSpawns
               /\ nSpawns' = IF respawns THEN nSpawns + 1 ELSE nSpawns
               /\ nTicks' = IF respawns THEN 0 ELSE nTicks + 1
               /\ \E am \in AudioStates, lay \in Layouts(level) :
                    \E e \in {Delivered(p, lay, am)} :
                       /\ Install([e EXCEPT !.log = << Call("gameLoop", am) >> \o @],
                                  "gameLoop")
                       /\ tr' = IF e.thrown
                                THEN [NoTrace(e) EXCEPT !.ran = TRUE,
                                                        !.pre = View(Eng)]
                                ELSE [ran |-> TRUE, pc |-> playerControls,
                                      pre |-> View(Eng),
                                      inp |-> View(p.inp), phys |-> View(p.phys),
                                      coll |-> View(p.coll), upd |-> View(p.upd),
                                      post |-> View(e), hits |-> p.coll.hits]
       /\ UNCHANGED <<disabled, app, keys, playerControls, nKeyEvents>>

NextAudio == StartGame \/ AudioTick

SpecAudio == Init /\ [][NextAudio]_vars

(* the engine a snapshot was taken of, before any handler logs to it *)
EngineOf(view) ==
  [gameState |-> view.gameState, level |-> view.level, score |-> view.score,
   lives |-> view.lives, nextLifeAt |-> view.nextLifeAt, playerCount |-> playerCount,
   heap |-> view.heap, objects |-> view.objects, rockets |-> view.rockets,
   log |-> << >>, hits |-> << >>, thrown |-> FALSE]

(* C30: audio that fails never aborts a tick: a playSound call made with
   audio disabled, with no audio context, for a name without a definition,
   or with a synthesis step that raises returns without raising and plays
   nothing, and the tick ends with no exception in the state a tick with
   working audio ends in. *)
C30_AudioNeverAborts ==
  (lastOp = "gameLoop" /\ tr.ran)
    => LET am == Asked(log)
       IN /\ Thrown(log) = {}
          /\ \A i \in 1..Len(log) :
               log[i].ch = "sound"
                 => /\ ~log[i].data.outcome.raised
                    /\ (\/ ~am.enabled
                        \/ am.audioContext = "none"
                        \/ log[i].name \in {"rocketDeath", "objectDeath"}
                        \/ am.synthesis = "raises")
                         => ~log[i].data.outcome.played
          /\ \E lay \in Layouts(tr.pre.level) :
               View(gameLoopWith(EngineOf(tr.pre), playerControls, lay, WorkingAudio))
                 = tr.post

(* a tick that moved the objects while the synthesis raised on a defined
   sound and another call named a sound without a definition *)
C30_Witness ==
  /\ lastOp = "gameLoop" /\ tr.ran
  /\ Asked(log).enabled /\ Asked(log).audioContext = "suspended"
  /\ Asked(log).synthesis = "raises"
  /\ \E i \in 1..Len(log) :
       /\ log[i].ch = "sound" /\ log[i].name = "collision"
       /\ log[i].data.outcome.warned /\ ~log[i].data.outcome.played
  /\ \E i \in 1..Len(log) :
       /\ log[i].ch = "sound" /\ log[i].name = "rocketDeath"
       /\ log[i].data.outcome.warned
  /\ tr.post.heap # tr.pre.heap

----------------------------------------------------------------------------
(* The phases of one tick *)

(* C31: a Running tick runs its phases once each and in this order: control
   input, force and integration with the bounds check, pairwise collisions,
   removal of dead objects, the game rules, and last the scoreUpdate, which
   carries the score, level and lives the tick ends with. *)
C31_PhaseOrder ==
  (lastOp = "gameLoop" /\ tr.ran)
    => /\ tr.inp = View(processInput(EngineOf(tr.pre), tr.pc))
       /\ tr.phys = View(updatePhysics(EngineOf(tr.inp)))
       /\ tr.coll = View(checkCollisions(EngineOf(tr.phys)))
       /\ tr.upd = View(updateObjects(EngineOf(tr.coll)))
       /\ \E lay \in Layouts(tr.upd.level) :
            tr.post = View(checkGameState(EngineOf(tr.upd), lay))
       /\ Len(log) > 0
       /\ log[Len(log)] = Emit("scoreUpdate",
                               [score |-> score, level |-> level, lives |-> lives])
       /\ \A i \in Emitted(log, "levelComplete") \cup Emitted(log, "gameOver") :
            /\ \A j \in Played(log, "collision") \cup Played(log, "objectDeath") : j < i
            /\ i < Len(log)

(* a tick in which every phase changed something: thrust was read, objects
   moved, a pair collided, a dead object was removed and the rules spoke *)
C31_Witness ==
  /\ lastOp = "gameLoop" /\ tr.ran
  /\ tr.inp # tr.pre
  /\ tr.phys.heap # tr.inp.heap
  /\ Len(tr.hits) > 0
  /\ Len(tr.upd.objects) < Len(tr.coll.objects)
  /\ Emitted(log, "levelComplete") # {}

----------------------------------------------------------------------------
(* InputManager on its own: key events, disable, enable and the query *)

(* resetKeys, called by disable *)
Disable ==
  /\ disabled' = TRUE
  /\ keys' = {}
  /\ playerControls' = [i \in 0..4 |-> NoControls]
  /\ lastOp' = "disable"
  /\ UNCHANGED <<gameState, level, score, lives, nextLifeAt, playerCount, heap,
                 objects, rockets, app, log, tr, nTicks, nSpawns, nKeyEvents>>

Enable ==
  /\ disabled' = FALSE
  /\ lastOp' = "enable"
  /\ UNCHANGED <<gameState, level, score, lives, nextLifeAt, playerCount, heap,
                 objects, rockets, keys, playerControls, app, log, tr, nTicks,
                 nSpawns, nKeyEvents>>

(* the player indices asked for: the five players and two on either side *)
PlayerIds == (0 - 2)..6

GetPlayerControls ==
  /\ \E playerId \in PlayerIds :
       log' = << Call("getPlayerControls", playerId),
                 Returned("getPlayerControls",
                          getPlayerControls(playerControls, playerId)) >>
  /\ lastOp' = "getPlayerControls"
  /\ UNCHANGED <<gameState, level, score, lives, nextLifeAt, playerCount, heap,
                 objects, rockets, keys, playerControls, disabled, app, tr,
                 nTicks, nSpawns, nKeyEvents>>

NextKeys == KeyDown \/ KeyUp \/ Disable \/ Enable \/ GetPlayerControls

SpecKeys == Init /\ [][NextKeys]_vars

(* C39: from disable() until enable() every player's control vector is
   all-false whatever keys go down or up, and getPlayerControls of an index
   outside 0..4 returns an all-false vector. *)
C39_DisabledReadsFalse ==
  /\ disabled => \A i \in 0..4 : playerControls[i] = NoControls
  /\ lastOp = "getPlayerControls"
       => ((disabled \/ Asked(log) \notin 0..4) => log[2].data = NoControls)

(* two keys of player 0 went down while the manager was disabled, then an
   index past the last player was asked for *)
C39_Witness ==
  /\ disabled
  /\ keys = {"ArrowRight", " "}
  /\ lastOp = "getPlayerControls"
  /\ Asked(log) = 5

----------------------------------------------------------------------------
(* Speed after the integration step *)

maxVelOf(type) == (IF type = ROCKET THEN 8 ELSE 6) * SCALE

(* the speed is a number and, to within one unit of the fixed point, at
   most the maximum of the kind *)
Capped(o) ==
  /\ ~o.nan
  /\ o.vx * o.vx + o.vy * o.vy <= (maxVelOf(o.type) + 1) * (maxVelOf(o.type) + 1)

(* C38: at the end of the integration step of a tick every alive object has
   a speed of at most the maximum of its kind, 8 for a Rocket and 6 for any
   other kind. *)
C38_SpeedCapped ==
  tr.ran
    => \A id \in 1..Len(tr.phys.heap) : tr.phys.heap[id].live => Capped(tr.phys.heap[id])

----------------------------------------------------------------------------
(* Lives, score and the life threshold over a game *)

(* C33: lives is never below 0, and once the last life is lost gameOver is
   emitted no more: a tick that starts with no life left emits none. *)
C33_LivesNeverNegative ==
  /\ lives >= 0
  /\ (lastOp = "gameLoop" /\ tr.ran /\ tr.pre.lives <= 0)
       => Emitted(log, "gameOver") = {}


(* the extra lives a handler's log announces *)
Grants == Cardinality(Emitted(log, "extraLife"))

(* C35: nextLifeAt is a positive multiple of 500, it is 500 after startGame
   and every extra life moves it up by 500, so that it is 500 times one
   plus the lives granted since startGame; score is below it, and not more
   than 500 below it once a life has been granted. *)
C35_LifeThreshold ==
  /\ nextLifeAt > 0
  /\ nextLifeAt % LifeStep = 0
  /\ score < nextLifeAt
  /\ nextLifeAt > LifeStep => nextLifeAt - LifeStep <= score
  /\ lastOp = "startGame" => nextLifeAt = LifeStep
  /\ (lastOp = "gameLoop" /\ tr.ran)
       => nextLifeAt = tr.pre.nextLifeAt + LifeStep * Grants

(* a tick that grants the first extra life of the game, with score past
   the old threshold by more than one ball *)
C35_Witness ==
  /\ lastOp = "gameLoop" /\ tr.ran
  /\ Grants = 1
  /\ tr.pre.nextLifeAt = LifeStep
  /\ nextLifeAt = 2 * LifeStep
  /\ score > LifeStep + 20


(* the score values announced by the scoreUpdate events of a log, in order *)
Announced(lg) ==
  LET ups == SelectSeq(lg, LAMBDA ev : ev.ch = "emit" /\ ev.name = "scoreUpdate")
  IN [k \in 1..Len(ups) |-> ups[k].data.score]

(* what the balls from id on earned in a tick: a ball alive before the tick
   and dead after the integration died at a wall (5 or 10), one dead only
   after the collision pass died in a hole (10 or 20) *)
RECURSIVE Earned(_, _)
Earned(t, id) ==
  IF id > Len(t.pre.heap) THEN 0
  ELSE LET o == t.pre.heap[id]
           double == IF o.type = BALL_LARGE THEN 2 ELSE 1
           points == IF ~(IsBall(o.type) /\ o.live) THEN 0
                     ELSE IF ~t.phys.heap[id].live THEN 5 * double
                     ELSE IF ~t.coll.heap[id].live THEN 10 * double
                     ELSE 0
       IN points + Earned(t, id + 1)

(* One ball among two holes in a level under way: where the ball is and how
   it moves, and where the two holes are.  The ball is about to cross the
   left wall, rests between two holes, drifts towards one, or is clear of
   both; the holes sit at the left wall, around the middle, or far away. *)
ScoreBalls ==
  { Moving(1700, 15000, -300, 0), Moving(900, 15000, -300, 0),
    Moving(20000, 15000, 0, 0), Moving(20000, 15000, 100, 0),
    Moving(20000, 15000, -100, 0), Moving(20000, 13500, 0, 100),
    Moving(30000, 20000, 50, 50), Moving(2700, 15000, -200, 0) }

ScoreHoles ==
  { << At(1000, 15000), At(21500, 15000) >>,
    << At(18500, 15000), At(21500, 15000) >>,
    << At(0, 15000), At(2600, 15600) >>,
    << At(30000, 5000), At(35000, 25000) >> }

RECURSIVE createAll(_, _)
createAll(e, cfgs) ==
  IF cfgs = << >> THEN e ELSE createAll(createGameObject(e, Head(cfgs)), Tail(cfgs))

InitScore ==
  \E large \in BOOLEAN : \E b \in ScoreBalls : \E hs \in ScoreHoles :
     \E e0 \in {createAll(
                  [gameState |-> "running", level |-> 5, score |-> 0,
                   lives |-> StartLives, nextLifeAt |-> LifeStep,
                   playerCount |-> 1, heap |-> << >>, objects |-> << >>,
                   rockets |-> << >>, log |-> << >>, hits |-> << >>,
                   thrown |-> FALSE],
                  << [type |-> ROCKET, x |-> 350 * SCALE, y |-> 150 * SCALE,
                      vx |-> 0, vy |-> 0, playerId |-> 0],
                     [type |-> IF large THEN BALL_LARGE ELSE BALL_SMALL,
                      x |-> b.x, y |-> b.y, vx |-> b.vx, vy |-> b.vy, playerId |-> -1],
                     [type |-> HOLE, x |-> hs[1].x, y |-> hs[1].y, vx |-> 0, vy |-> 0,
                      playerId |-> -1],
                     [type |-> HOLE, x |-> hs[2].x, y |-> hs[2].y, vx |-> 0, vy |-> 0,
                      playerId |-> -1] >>)} :
      \E e \in {[e0 EXCEPT !.rockets = << 1 >>]} :
        /\ gameState = e.gameState
        /\ level = e.level
        /\ score = e.score
        /\ lives = e.lives
        /\ nextLifeAt = e.nextLifeAt
        /\ playerCount = e.playerCount
        /\ heap = e.heap
        /\ objects = e.objects
        /\ rockets = e.rockets
        /\ keys = {}
        /\ playerControls = updatePlayerControls({})
        /\ log = << >>
        /\ tr = NoTrace(e)
        /\ lastOp = "constructor"
        /\ nTicks = 0
        /\ nSpawns = 1
        /\ nKeyEvents = 0
        /\ disabled = FALSE
        /\ app = MainMenu

SpecScore == InitScore /\ [][GameLoop]_vars

(* C36: score does not decrease in a tick, each single change of it is 5,
   10 or 20 points, and each ball counts at most once: the tick adds
   exactly the points of the balls that died in it, a wall death and a hole
   death of the same ball or two holes for one ball never adding up. *)
C36_ScoreOncePerBall ==
  (lastOp = "gameLoop" /\ tr.ran)
    => LET s == << tr.pre.score >> \o Announced(log)
       IN /\ score >= tr.pre.score
          /\ s[Len(s)] = score
          /\ \A k \in 1..(Len(s) - 2) : s[k + 1] - s[k] \in {5, 10, 20}
          /\ s[Len(s)] = s[Len(s) - 1]
          /\ score = tr.pre.score + Earned(tr, 1)

(* a large ball that overlapped both holes after the integration and was
   scored by one of them *)
C36_Witness ==
  /\ lastOp = "gameLoop" /\ tr.ran
  /\ tr.pre.heap[2].type = BALL_LARGE /\ tr.phys.heap[2].live
  /\ Overlapping(tr.phys, 2, 3) /\ Overlapping(tr.phys, 2, 4)
  /\ ~tr.coll.heap[2].live
  /\ score = tr.pre.score + 20

(* a small ball that crossed the wall inside a hole and was scored by the
   wall alone *)
C36_WitnessWall ==
  /\ lastOp = "gameLoop" /\ tr.ran
  /\ tr.pre.heap[2].type = BALL_SMALL /\ tr.pre.heap[2].live
  /\ ~tr.phys.heap[2].live
  /\ Overlapping(tr.phys, 2, 3)
  /\ score = tr.pre.score + 5

----------------------------------------------------------------------------
(* KoulesGame over the engine: the start buttons, Escape, R, the ticker and
   the one-second timers of handleGameOver and handleLevelComplete.  The
   controls menu and its back button only change what is shown over a menu
   that already paused the engine and are left out. *)

MaxTimers == 3

(* the levels at which the application is found in its main menu: 1 after
   init(), a later one after a game that ended there (currentLevel is never
   reset, and startGame discards whatever the engine still held) *)
AppLevels == {1, 4}

AppLayouts(lvl) == IF Layouts(lvl) # {} THEN Layouts(lvl) ELSE {LayoutGrid(1)}

(* init(): the engine is constructed and showMainMenu pauses it *)
InitApp ==
  /\ gameState = "paused"
  /\ level = 1
  /\ score = 0
  /\ lives = StartLives
  /\ nextLifeAt = LifeStep
  /\ playerCount = 1
  /\ heap = << >>
  /\ objects = << >>
  /\ rockets = << >>
  /\ keys = {}
  /\ playerControls = updatePlayerControls({})
  /\ log = << >>
  /\ tr = NoTrace(Eng)
  /\ lastOp = "constructor"
  /\ nTicks = 0
  /\ nSpawns = 0
  /\ nKeyEvents = 0
  /\ disabled = FALSE
  /\ \E L \in AppLevels : app = [MainMenu EXCEPT !.currentLevel = L]

(* showMainMenu *)
showMainMenu(a) == [a EXCEPT !.gameState = "menu", !.mainMenu = TRUE]

(* the listeners of setupEventListeners on one engine event *)
handleEvent(a, ev) ==
  IF ev.ch # "emit" THEN a
  ELSE IF ev.name = "gameOver"
  THEN [a EXCEPT !.gameState = "menu",
                 !.timers = Append(@, [kind |-> "gameOver", data |-> ev.data])]
  ELSE IF ev.name = "levelComplete"
  THEN [a EXCEPT !.currentLevel = @ + 1,
                 !.timers = Append(@, [kind |-> "levelComplete", data |-> ev.data])]
  ELSE a

RECURSIVE handleEvents(_, _, _)
handleEvents(a, lg, k) ==
  IF k > Len(lg) THEN a ELSE handleEvents(handleEvent(a, lg[k]), lg, k + 1)

(* KoulesGame.startGame(n), from a button or from the level-complete timer *)
AppStartGame(a, n, op, arg) ==
  /\ \E cfg \in {[playerCount |-> n, level |-> a.currentLevel]} :
       \E lay \in AppLayouts(a.currentLevel) :
          \E e \in {startGame([Eng EXCEPT !.log = << Call(op, arg) >>], cfg, lay)} :
             \E a1 \in {handleEvents([a EXCEPT !.playerCount = n,
                                               !.gameState = "playing",
                                               !.mainMenu = FALSE], e.log, 1)} :
                /\ Install(e, op)
                /\ tr' = NoTrace(e)
                /\ app' = a1
  /\ nSpawns' = 1
  /\ nTicks' = 0
  /\ UNCHANGED <<keys, playerControls, disabled, nKeyEvents>>

ClickStart ==
  /\ app.mainMenu
  /\ \E n \in {1, 2} : AppStartGame(app, n, "click", n)

(* the keydown listener on Escape: handleEscapeKey, pauseGame, resumeGame.
   The log keeps the application state the key met, and the one the key
   before it met when that was Escape too. *)
Escape ==
  /\ \E a \in {IF app.gameState = "playing"
               THEN showMainMenu([app EXCEPT !.gameState = "paused"])
               ELSE IF app.gameState = "paused"
               THEN [app EXCEPT !.gameState = "playing", !.mainMenu = FALSE]
               ELSE app} :
       \E e \in {IF app.gameState = "playing" THEN pause(pause(Eng))
                 ELSE IF app.gameState = "paused" THEN resume(Eng)
                 ELSE Eng} :
          /\ Install([e EXCEPT !.log =
                        << Call("Escape",
                                [from |-> app.gameState,
                                 before |-> IF lastOp = "Escape" THEN Asked(log).from
                                            ELSE "none"]) >>],
                     "Escape")
          /\ tr' = NoTrace(e)
          /\ app' = a
  /\ UNCHANGED <<keys, playerControls, disabled, nTicks, nSpawns, nKeyEvents>>

(* the keydown listener on r: restartLevel while playing *)
PressR ==
  /\ app.gameState = "playing"
  /\ nSpawns < MaxSpawns
  /\ \E lay \in AppLayouts(level) :
       \E e \in {restartLevel(Eng, lay)} :
          Install(e, "restartLevel") /\ tr' = NoTrace(e)
  /\ nSpawns' = nSpawns + 1
  /\ nTicks' = 0
  /\ UNCHANGED <<keys, playerControls, disabled, app, nKeyEvents>>

(* one ticker callback with the listeners of its events *)
AppTick ==
  /\ gameLoopRuns(Eng)
  /\ nTicks < MaxTicks
  /\ \E p \in {Passes(Eng, playerControls)} :
       \E respawns \in {aliveRockets(p.upd) = {} /\ lives > 1} :
          /\ respawns => nSpawns < MaxSpawns
          /\ nSpawns' = IF respawns THEN nSpawns + 1 ELSE nSpawns
          /\ nTicks' = IF respawns THEN 0 ELSE nTicks + 1
          /\ \E lay \in AppLayouts(level) :
               \E e \in {Finish(p.upd, lay)} :
                  \E a \in {handleEvents(app, e.log, 1)} :
                     /\ Len(a.timers) <= MaxTimers
                     /\ a.currentLevel <= MaxLevel
                     /\ Install(e, "gameLoop")
                     /\ app' = a
                     /\ tr' = [ran |-> TRUE, pc |-> playerControls,
                               pre |-> View(Eng), inp |-> View(p.inp),
                               phys |-> View(p.phys), coll |-> View(p.coll),
                               upd |-> View(p.upd), post |-> View(e),
                               hits |-> p.coll.hits]
  /\ UNCHANGED <<keys, playerControls, disabled, nKeyEvents>>

(* the oldest timer runs: the menu after a game over, the next level after
   a level completion *)
Timeout ==
  /\ app.timers # << >>
  /\ \E t \in {Head(app.timers)} :
       \E a \in {[app EXCEPT !.timers = Tail(@)]} :
          IF t.kind = "gameOver"
          THEN /\ \E e \in {pause([Eng EXCEPT !.log = << Call("timeout", t) >>])} :
                    Install(e, "timeout") /\ tr' = NoTrace(e)
               /\ app' = showMainMenu(a)
               /\ UNCHANGED <<keys, playerControls, disabled, nTicks, nSpawns,
                              nKeyEvents>>
          ELSE AppStartGame(a, a.playerCount, "nextLevel", t)

NextApp == ClickStart \/ Escape \/ PressR \/ AppTick \/ Timeout

SpecApp == InitApp /\ [][NextApp]_vars


(* C34: Escape while playing pauses the game and Escape again resumes it:
   after two Escape keys in a row, the first of which met the application
   playing, the application is playing again and the engine is running. *)
C34_EscapeTwiceResumes ==
  /\ lastOp = "Escape" /\ Asked(log).from = "playing" => gameState = "paused"
  /\ lastOp = "Escape" /\ Asked(log).before = "playing"
       => app.gameState = "playing" /\ gameState = "running"

(* C32: a level completes once: a tick that starts with no ball alive (the
   completion was announced by the tick that removed the last one) does not
   announce it again, and the level the timer starts is the completed one
   plus one. *)
C32_LevelCompleteOnce ==
  /\ lastOp = "gameLoop" /\ tr.ran /\ aliveBalls(tr.pre) = {}
       => Emitted(log, "levelComplete") = {}
  /\ lastOp = "nextLevel" => level = Asked(log).data.level + 1

(* C37: the start of the next level keeps the score announced with the
   completion and the lives and life threshold the engine holds. *)
C37_AdvanceKeepsProgress ==
  [][lastOp' = "nextLevel"
       => /\ score' = Head(app.timers).data.score
          /\ lives' = lives
          /\ nextLifeAt' = nextLifeAt]_vars

====
